---- MODULE Spec2Model ----
(***************************************************************************)
(* Digital twin of a water dispenser: the reading store (storage.py), the  *)
(* static threshold detectors (anomalies.py, anomalies_endpoints.py), the  *)
(* adaptive z-score detector and its classifier (anomalies_endpoints.py,   *)
(* metrics_endpoints.py) and the reliability metrics MTBA and MTBF         *)
(* (metrics_endpoints.py).                                                 *)
(*                                                                         *)
(* Units.  A timestamp is an integer number of seconds.  A value is an     *)
(* integer number of resolution steps of its sensor: 0.001 L/min for flow, *)
(* 1 degree C for temperature, 0.1 for level, 0.01 kW for power.  The      *)
(* thresholds of settings.py are written in the same steps.  Means,        *)
(* variances and squared z-scores are exact fractions <<num, den>>.        *)
(* A metric value rounded to two decimals is an integer of hundredths.     *)
(***************************************************************************)
EXTENDS Integers, Sequences, FiniteSets, TLC

VARIABLES store, config, result, scans, simulator

vars == <<store, config, result, scans, simulator>>

(***************************************************************************)
(* settings.py, in resolution steps of the sensor concerned.               *)
(***************************************************************************)
temperature_setpoint == 25

SETPOINT_TEMP_DEFAULT == 60

TMP_TOLERANCE == 2

FLOW_INACTIVITY_THRESHOLD == 1

FLOW_INACTIVITY_MINUTES == 5

LEVEL_LOW_THRESHOLD == 2

POWER_HIGH_THRESHOLD == 4

(***************************************************************************)
(* Bounds of the model.                                                    *)
(***************************************************************************)
MaxFlowReadings == 11

MaxStaticReadings == 4

MaxRunReadings == 6

MaxWindowReadings == 5

MaxScenarios == 2

MaxHours == 1

MaxMtbfReadings == 3

BaselineLen == 5

MaxNewReadings == 2

MaxTies == 2

MaxMetricReadings == 2

MaxRateReadings == 3

MaxFailureReadings == 2

MaxScanReadings == 5

MaxMixedReadings == 6

None == -1

NoSensor == ""

Abs(x) == IF x < 0 THEN -x ELSE x

Max(S) == CHOOSE x \in S : \A y \in S : y <= x

Min(S) == CHOOSE x \in S : \A y \in S : x <= y

RECURSIVE Gcd(_, _)
Gcd(a, b) == IF b = 0 THEN a ELSE Gcd(b, a % b)

\* The fraction num/den (den > 0) in lowest terms.
Frac(num, den) ==
    LET g == Gcd(Abs(num), den)
    IN  IF g = 0 THEN <<0, 1>> ELSE <<num \div g, den \div g>>

RECURSIVE SelectFrom(_, _, _)
SelectFrom(s, keep, i) ==
    IF i > Len(s) THEN <<>>
    ELSE IF i \in keep THEN <<s[i]>> \o SelectFrom(s, keep, i + 1)
    ELSE SelectFrom(s, keep, i + 1)

\* The subsequence of s whose indices are in the set keep.
Select(s, keep) == SelectFrom(s, keep, 1)

OfSensor(s, name) == Select(s, {i \in DOMAIN s : s[i].sensor = name})

OfType(s, type) == Select(s, {i \in DOMAIN s : s[i].type = type})

Reading(s, ts, v) == [sensor |-> s, timestamp |-> ts, value |-> v]

(***************************************************************************)
(* The record every operation leaves in `result`: what it was called with, *)
(* the snapshot it read, and what it returned or raised.                   *)
(***************************************************************************)
Outcome(op) ==
    [op |-> op, status |-> "ok", readings |-> <<>>, rows |-> <<>>, events |-> <<>>,
     value |-> 0, samples |-> None, sensor |-> NoSensor, window |-> 0,
     start |-> None, end |-> None,
     title |-> "", unit |-> "", expected_value |-> None, users |-> None, hours |-> None,
     detail |-> <<>>, all_readings |-> <<>>]

(***************************************************************************)
(* storage.py                                                              *)
(***************************************************************************)

\* The rows with indices in G in every order.
RECURSIVE Perms(_, _)
Perms(rows, G) ==
    IF G = {} THEN {<<>>}
    ELSE UNION {{<<rows[i]>> \o p : p \in Perms(rows, G \ {i})} : i \in G}

\* The orders in which the rows with indices in S can come out of
\* ORDER BY timestamp DESC (desc = TRUE) or of an ascending sort on the
\* timestamp (desc = FALSE).  Neither SQLite's ORDER BY nor pandas' default
\* quicksort fixes the relative order of rows with equal timestamps.
RECURSIVE TimeOrders(_, _, _)
TimeOrders(rows, S, desc) ==
    IF S = {} THEN {<<>>}
    ELSE LET times == {rows[i].timestamp : i \in S}
             t     == IF desc THEN Max(times) ELSE Min(times)
             heads == {i \in S : rows[i].timestamp = t}
         IN  {p \o rest : p \in Perms(rows, heads),
                          rest \in TimeOrders(rows, S \ heads, desc)}

\* LocalStorage.fetch_all: every row, newest timestamp first.
fetch_all(rows) == TimeOrders(rows, DOMAIN rows, TRUE)

\* LocalStorage.save_batch: append the batch to the table.
save_batch(batch) ==
    /\ store' = store \o batch
    /\ result' = Outcome("save_batch")
    /\ UNCHANGED <<config, scans, simulator>>

\* LocalStorage.get_config: the newest row of the config table, or None.
get_config(rows) == IF rows = <<>> THEN None ELSE rows[Len(rows)]

\* LocalStorage.clear_config: delete every row of the config table.
clear_config ==
    /\ config' = <<>>
    /\ result' = Outcome("clear_config")
    /\ UNCHANGED <<store, scans, simulator>>

\* LocalStorage.save_config(user_quantity, hours): clear_config, then insert.
save_config(user_quantity, hours) ==
    /\ config' = <<[user_quantity |-> user_quantity, hours |-> hours]>>
    /\ result' = [Outcome("save_config") EXCEPT !.users = user_quantity, !.hours = hours]
    /\ UNCHANGED <<store, scans, simulator>>

\* LocalStorage.clear_all: delete every reading and every configuration.
clear_all ==
    /\ store' = <<>>
    /\ config' = <<>>
    /\ result' = Outcome("clear_all")
    /\ UNCHANGED <<scans, simulator>>

(***************************************************************************)
(* Static threshold detector.                                              *)
(***************************************************************************)
StaticEvent(r, type) ==
    [sensor |-> r.sensor, timestamp |-> r.timestamp, value |-> r.value, type |-> type]

\* The counter after reading r, from its value before.
FlowCountStuck(count, r) ==
    IF r.sensor = "flow" /\ r.value <= FLOW_INACTIVITY_THRESHOLD THEN count + 1 ELSE count

FlowCount(count, r) ==
    IF r.sensor = "flow"
    THEN IF r.value <= FLOW_INACTIVITY_THRESHOLD THEN count + 1 ELSE 0
    ELSE count

\* The Overtemperature test of one temperature value.
OvertemperatureLoose(val, setpoint) == Abs(val - setpoint) >= TMP_TOLERANCE

Overtemperature(val, setpoint) == Abs(val - setpoint) > TMP_TOLERANCE

\* The events one reading appends when a level or a power value at its
\* threshold counts as a breach.
StaticEventsAtThreshold(r, count, setpoint) ==
    IF r.sensor = "temperature"
    THEN IF Overtemperature(r.value, setpoint)
         THEN <<StaticEvent(r, "Overtemperature")>> ELSE <<>>
    ELSE IF r.sensor = "flow"
    THEN IF count >= FLOW_INACTIVITY_MINUTES
         THEN <<StaticEvent(r, "Inactivity")>> ELSE <<>>
    ELSE IF r.sensor = "level"
    THEN IF r.value <= LEVEL_LOW_THRESHOLD
         THEN <<StaticEvent(r, "LowLevel")>> ELSE <<>>
    ELSE IF r.sensor = "power"
    THEN IF r.value >= POWER_HIGH_THRESHOLD
         THEN <<StaticEvent(r, "HighPower")>> ELSE <<>>
    ELSE <<>>

\* The events one reading appends, given the counter after it.
StaticEvents(r, count, setpoint) ==
    IF r.sensor = "temperature"
    THEN IF Overtemperature(r.value, setpoint)
         THEN <<StaticEvent(r, "Overtemperature")>> ELSE <<>>
    ELSE IF r.sensor = "flow"
    THEN IF count >= FLOW_INACTIVITY_MINUTES
         THEN <<StaticEvent(r, "Inactivity")>> ELSE <<>>
    ELSE IF r.sensor = "level"
    THEN IF r.value < LEVEL_LOW_THRESHOLD
         THEN <<StaticEvent(r, "LowLevel")>> ELSE <<>>
    ELSE IF r.sensor = "power"
    THEN IF r.value > POWER_HIGH_THRESHOLD
         THEN <<StaticEvent(r, "HighPower")>> ELSE <<>>
    ELSE <<>>

\* The loop when a reading of another sensor ends a low-flow run.
RECURSIVE StaticScanOthersReset(_, _, _, _)
StaticScanOthersReset(readings, i, count, setpoint) ==
    IF i > Len(readings) THEN <<>>
    ELSE LET c == IF readings[i].sensor = "flow" THEN FlowCount(count, readings[i]) ELSE 0
         IN  StaticEvents(readings[i], c, setpoint)
                 \o StaticScanOthersReset(readings, i + 1, c, setpoint)

\* The loop over the readings from position i on, flow_zero_count = count.
RECURSIVE StaticScan(_, _, _, _)
StaticScan(readings, i, count, setpoint) ==
    IF i > Len(readings) THEN <<>>
    ELSE LET c == FlowCount(count, readings[i])
         IN  StaticEvents(readings[i], c, setpoint)
                 \o StaticScan(readings, i + 1, c, setpoint)

\* The endpoint when a reading of a sensor it does not know makes it fail.
get_anomalies_known_only ==
    /\ \E readings \in fetch_all(store) :
          LET unknown == \E i \in DOMAIN readings :
                            readings[i].sensor \notin {"temperature", "flow", "level", "power"}
          IN  result' = [Outcome("get_anomalies") EXCEPT
                            !.readings = readings,
                            !.status = IF unknown THEN "ValueError" ELSE "ok",
                            !.events = IF unknown THEN <<>>
                                       ELSE StaticScan(readings, 1, 0, SETPOINT_TEMP_DEFAULT)]
    /\ UNCHANGED <<store, config, scans, simulator>>

\* anomalies_endpoints.get_anomalies (GET /anomalies/static).
get_anomalies ==
    /\ \E readings \in fetch_all(store) :
          result' = [Outcome("get_anomalies") EXCEPT
                        !.readings = readings,
                        !.events = StaticScan(readings, 1, 0, SETPOINT_TEMP_DEFAULT)]
    /\ UNCHANGED <<store, config, scans, simulator>>

\* anomalies.detect_anomalies (the detector behind api.py and the simulator).
detect_anomalies ==
    /\ \E readings \in fetch_all(store) :
          result' = [Outcome("detect_anomalies") EXCEPT
                        !.readings = readings,
                        !.events = StaticScan(readings, 1, 0, temperature_setpoint)]
    /\ UNCHANGED <<store, config, scans, simulator>>

(***************************************************************************)
(* metrics_endpoints.py: helpers shared by the metrics.                    *)
(***************************************************************************)

\* METRIC_METADATA: title and unit of the metric an operation returns.
METRIC_METADATA(op) ==
    CASE op = "get_availability"       -> <<"Availability", "%">>
      [] op = "get_performance"        -> <<"Performance", "ratio">>
      [] op = "get_quality"            -> <<"Quality", "%">>
      [] op = "get_energy_efficiency"  -> <<"Energy Efficiency", "kWh/L">>
      [] op = "get_thermal_variation"  -> <<"Thermal Variation", "degC">>
      [] op = "get_peak_flow_ratio"    -> <<"Peak Flow Ratio", "">>
      [] op = "get_mtba"               -> <<"Mean Time Between Adaptive Anomalies", "min">>
      [] op = "get_response_index"     -> <<"Response Index", "min">>
      [] op = "get_mtbf"               -> <<"Mean Time Between Failures", "hours">>
      [] op = "get_failures_count"     -> <<"Failures Count", "failures">>
      [] op = "get_usage_rate"         -> <<"Usage Rate", "services/hour">>
      [] OTHER                         -> <<op, "">>

\* format_metric_response: the record of a metric.  The value is an integer
\* number of the last decimal the metric rounds to (hundredths; thousandths
\* for the energy efficiency and the performance; units for a count).
format_metric_response(op, value, samples) ==
    [Outcome(op) EXCEPT !.value = value, !.samples = samples,
                        !.title = METRIC_METADATA(op)[1], !.unit = METRIC_METADATA(op)[2]]

\* An exception that leaves the handler: no metric record is returned.
raise(op, status) == [Outcome(op) EXCEPT !.status = status]

\* round(num / den, 2) for num >= 0, den > 0, as the set of hundredths that
\* Python's round can return: the nearest hundredth, and at an exact
\* decimal tie either neighbour, because round then follows the binary
\* float, which lies just above or just below the tie.
Round2(num, den) ==
    LET q == (100 * num) \div den
        r == (100 * num) % den
    IN  IF 2 * r > den THEN {q + 1}
        ELSE IF 2 * r < den THEN {q}
        ELSE {q, q + 1}

\* sorted(...) of a sequence of integers.
RECURSIVE Sorted(_)
Sorted(s) ==
    IF s = <<>> THEN <<>>
    ELSE LET m == Min({s[i] : i \in DOMAIN s})
             k == CHOOSE i \in DOMAIN s : s[i] = m
         IN  <<m>> \o Sorted([i \in 1..(Len(s) - 1) |-> IF i < k THEN s[i] ELSE s[i + 1]])

RECURSIVE Sum(_)
Sum(s) == IF s = <<>> THEN 0 ELSE s[1] + Sum(Tail(s))

DiffsFromFirst(times) == [i \in 1..(Len(times) - 1) |-> times[i + 1] - times[1]]

\* The gaps between consecutive elements of a sorted sequence of times.
Diffs(times) == [i \in 1..(Len(times) - 1) |-> times[i + 1] - times[i]]

(***************************************************************************)
(* metrics_endpoints.get_mtbf (GET /metrics/mtbf).                         *)
(***************************************************************************)
in_range(ts, start, end) ==
    /\ ~(start # None /\ ts < start)
    /\ ~(end # None /\ ts > end)

\* The failure test get_mtbf applies to one reading.
MtbfFailure(r) ==
    \/ r.sensor = "temperature" /\ Abs(r.value - SETPOINT_TEMP_DEFAULT) > TMP_TOLERANCE
    \/ r.sensor = "flow" /\ r.value <= FLOW_INACTIVITY_THRESHOLD
    \/ r.sensor = "level" /\ r.value < LEVEL_LOW_THRESHOLD
    \/ r.sensor = "power" /\ r.value > POWER_HIGH_THRESHOLD

\* fail_ts, kept with the reading each timestamp came from.
MtbfFailures(reads, start, end) ==
    Select(reads, {i \in DOMAIN reads :
                     in_range(reads[i].timestamp, start, end) /\ MtbfFailure(reads[i])})

get_mtbf(start, end) ==
    /\ \E reads \in fetch_all(store) :
          LET fails == MtbfFailures(reads, start, end)
              times == Sorted([i \in DOMAIN fails |-> fails[i].timestamp])
              diffs == Diffs(times)
          IN  IF Len(fails) < 2
              THEN result' = [format_metric_response("get_mtbf", 0, Len(fails)) EXCEPT
                                 !.readings = reads, !.events = fails,
                                 !.start = start, !.end = end]
              ELSE \E avg_mtbf \in Round2(Sum(diffs), 3600 * Len(diffs)) :
                     result' = [format_metric_response("get_mtbf", avg_mtbf, Len(fails)) EXCEPT
                                   !.readings = reads, !.events = fails,
                                   !.start = start, !.end = end]
    /\ UNCHANGED <<store, config, scans, simulator>>

(***************************************************************************)
(* anomalies_endpoints.adaptive_anomalies (GET /anomalies/adaptive).       *)
(*                                                                         *)
(* A float that is a rational is a fraction <<num, den>> in lowest terms,  *)
(* NaN is <<0, 0>>.  A float that is the square root of a rational, up to  *)
(* its sign, is [sign, sq]: sign * sqrt(sq).  NaN is [0, <<0, 0>>] and     *)
(* plus or minus infinity is [sign, <<1, 0>>].                             *)
(***************************************************************************)
Z_THRESHOLD == <<3, 2>>

NaN == <<0, 0>>

Sign(x) == IF x > 0 THEN 1 ELSE IF x < 0 THEN -1 ELSE 0

Root(sign, sq) == [sign |-> sign, sq |-> sq]

RootNaN == Root(0, NaN)

\* df.sort_values('timestamp'): ascending, ties in any order.
sort_values(df) == TimeOrders(df, DOMAIN df, FALSE)

\* df['sensor'].unique(): the sensor names in order of first appearance.
RECURSIVE unique(_)
unique(df) ==
    IF df = <<>> THEN <<>>
    ELSE LET front == unique(SubSeq(df, 1, Len(df) - 1))
             name  == df[Len(df)].sensor
         IN  IF \E i \in DOMAIN front : front[i] = name THEN front ELSE Append(front, name)

RECURSIVE SumValues(_, _, _)
SumValues(df, lo, hi) == IF lo > hi THEN 0 ELSE df[lo].value + SumValues(df, lo + 1, hi)

RECURSIVE SumSquares(_, _, _)
SumSquares(df, lo, hi) ==
    IF lo > hi THEN 0 ELSE df[lo].value * df[lo].value + SumSquares(df, lo + 1, hi)

\* First row of the rolling window that ends at row i.
WindowStartAll(i, window) == 1

WindowStart(i, window) == IF i - window + 1 < 1 THEN 1 ELSE i - window + 1

\* rolling(window, min_periods = window // 2).mean() of a window of n
\* observations with sum S.
rolling_mean(S, n, window) == IF n >= window \div 2 THEN Frac(S, n) ELSE NaN

\* rolling(window, min_periods = window // 2).std().fillna(0) of a window of
\* n observations with sum S and sum of squares Q, as the sample variance:
\* NaN (fewer than min_periods or fewer than 2 observations) has become 0.
rolling_var_population(S, Q, n, window) ==
    IF n >= window \div 2 /\ n >= 2 THEN Frac(n * Q - S * S, n * n) ELSE <<0, 1>>

rolling_var(S, Q, n, window) ==
    IF n >= window \div 2 /\ n >= 2 THEN Frac(n * Q - S * S, n * (n - 1)) ELSE <<0, 1>>

\* min_std = sensor_df['value'].mean() * 0.01
min_std(df) == Frac(SumValues(df, 1, Len(df)), 100 * Len(df))

\* The 'std' column after .replace(0, min_std).
effective_std(var, m) ==
    IF var[1] = 0 THEN Root(Sign(m[1]), Frac(m[1] * m[1], m[2] * m[2])) ELSE Root(1, var)

\* The 'z' column: (value - mean) / std in float arithmetic, where x / 0 is
\* NaN for x = 0 and an infinity otherwise.
z_score(value, mean, std) ==
    LET num == value * mean[2] - mean[1]
    IN  IF mean = NaN THEN RootNaN
        ELSE IF std.sign = 0 THEN (IF num = 0 THEN RootNaN ELSE Root(Sign(num), <<1, 0>>))
        ELSE IF num = 0 THEN Root(0, <<0, 1>>)
        ELSE Root(Sign(num) * std.sign,
                  Frac(num * num * std.sq[2], mean[2] * mean[2] * std.sq[1]))

\* z.abs() > Z_THRESHOLD; a comparison with NaN is false.
is_anomaly(z) ==
    IF z = RootNaN THEN FALSE
    ELSE IF z.sq[2] = 0 THEN TRUE
    ELSE Z_THRESHOLD[2] * Z_THRESHOLD[2] * z.sq[1] > Z_THRESHOLD[1] * Z_THRESHOLD[1] * z.sq[2]

\* |z| is the threshold itself before any rounding.  mean, std and z are
\* IEEE doubles in the code, each a rounded result, so the z computed for
\* such a row lies within a few units in the last place of the threshold,
\* on either side.
at_threshold(z) ==
    /\ z # RootNaN
    /\ z.sq[2] # 0
    /\ Z_THRESHOLD[2] * Z_THRESHOLD[2] * z.sq[1] = Z_THRESHOLD[1] * Z_THRESHOLD[1] * z.sq[2]

\* Row i of sensor_df with its columns mean, std, z and anomaly.
sensor_row(sensor_df, i, window, m) ==
    LET lo   == WindowStart(i, window)
        n    == i - lo + 1
        S    == SumValues(sensor_df, lo, i)
        mean == rolling_mean(S, n, window)
        std  == effective_std(rolling_var(S, SumSquares(sensor_df, lo, i), n, window), m)
        z    == z_score(sensor_df[i].value, mean, std)
    IN  [sensor    |-> sensor_df[i].sensor,
         timestamp |-> sensor_df[i].timestamp,
         value     |-> sensor_df[i].value,
         mean      |-> mean,
         std       |-> std,
         z         |-> z,
         anomaly   |-> is_anomaly(z)]

sensor_rows(sensor_df, window) ==
    LET m == min_std(sensor_df)
    IN  [i \in DOMAIN sensor_df |-> sensor_row(sensor_df, i, window, m)]

\* The rows of the group a detector pass works on, for the sensor named.
group_of_all(df, sensor_name) == df

group_of(df, sensor_name) == OfSensor(df, sensor_name)

\* The loop over df['sensor'].unique(): every group's rows, group by group.
RECURSIVE all_rows(_, _, _)
all_rows(df, names, window) ==
    IF names = <<>> THEN <<>>
    ELSE sensor_rows(group_of(df, names[1]), window) \o all_rows(df, Tail(names), window)

AnomalyEvent(row) ==
    [sensor |-> row.sensor, timestamp |-> row.timestamp, value |-> row.value,
     mean |-> row.mean, std |-> row.std, z |-> row.z]

\* The body of adaptive_anomalies once the snapshot is sorted: the filter
\* on the sensor, then the rows of every group.
adaptive_rows(df, sensor, window) ==
    LET filtered == IF sensor # NoSensor THEN OfSensor(df, sensor) ELSE df
    IN  all_rows(filtered, unique(filtered), window)

anomalies_list(rows) ==
    LET flagged == Select(rows, {i \in DOMAIN rows : rows[i].anomaly})
    IN  [i \in DOMAIN flagged |-> AnomalyEvent(flagged[i])]

\* What a call of adaptive_anomalies can return or raise on the table rows:
\* 404 without readings, else the events of one of the sorted frames.  The
\* frames sort_values can produce are the same whichever of its orders
\* fetch_all returned, so one of them stands for all in `readings`.
adaptive_result(readings, rows) ==
    [status |-> "ok", readings |-> readings, rows |-> rows, events |-> anomalies_list(rows)]

\* The 'anomaly' column in floating point: as computed on the exact values,
\* except on the rows at the threshold, where the rounding of z decides.
anomaly_column(rows) ==
    LET ties == {i \in DOMAIN rows : at_threshold(rows[i].z)}
    IN  {[i \in DOMAIN rows |-> [rows[i] EXCEPT !.anomaly = @ \/ i \in above]] :
            above \in SUBSET ties}

adaptive_results(readings, df, sensor, window) ==
    {adaptive_result(readings, rows) :
        rows \in anomaly_column(adaptive_rows(df, sensor, window))}

adaptive_outcomes_lenient(rows, sensor, window) ==
    LET readings == CHOOSE r \in fetch_all(rows) : TRUE
    IN  UNION {adaptive_results(readings, df, sensor, window) : df \in sort_values(readings)}

adaptive_outcomes(rows, sensor, window) ==
    LET readings == CHOOSE r \in fetch_all(rows) : TRUE
    IN  IF readings = <<>>
        THEN {[status |-> "error", readings |-> readings, rows |-> <<>>, events |-> <<>>]}
        ELSE UNION {adaptive_results(readings, df, sensor, window) :
                       df \in sort_values(readings)}

adaptive_anomalies(sensor, window) ==
    /\ \E out \in adaptive_outcomes(store, sensor, window) :
          result' = [Outcome("adaptive_anomalies") EXCEPT
                        !.status = out.status, !.readings = out.readings,
                        !.rows = out.rows, !.events = out.events,
                        !.sensor = sensor, !.window = window]
    /\ UNCHANGED <<store, config, scans, simulator>>

(***************************************************************************)
(* classify_anomalies, in anomalies_endpoints.py (GET /anomalies/classify) *)
(* and its copy in metrics_endpoints.py.                                   *)
(***************************************************************************)
\* value > mean and abs(value - mean) > 5 on the fraction mean.
AboveMean(a) == a.value * a.mean[2] > a.mean[1]

FarFromMean(a) == Abs(a.value * a.mean[2] - a.mean[1]) > 5 * a.mean[2]

anomaly_type_any_sensor(a) ==
    IF AboveMean(a) THEN "leakage"
    ELSE IF a.sensor = "temperature" /\ FarFromMean(a) THEN "sensor_error"
    ELSE IF a.sensor = "power" /\ AboveMean(a) THEN "overuse"
    ELSE "other"

anomaly_type(a) ==
    IF a.sensor = "flow" /\ AboveMean(a) THEN "leakage"
    ELSE IF a.sensor = "temperature" /\ FarFromMean(a) THEN "sensor_error"
    ELSE IF a.sensor = "power" /\ AboveMean(a) THEN "overuse"
    ELSE "other"

classified(anomalies) ==
    [i \in DOMAIN anomalies |->
        [sensor |-> anomalies[i].sensor, timestamp |-> anomalies[i].timestamp,
         value |-> anomalies[i].value, mean |-> anomalies[i].mean,
         std |-> anomalies[i].std, z |-> anomalies[i].z,
         type |-> anomaly_type(anomalies[i])]]

Classify(op, sensor, window) ==
    /\ \E out \in adaptive_outcomes(store, sensor, window) :
          result' = [Outcome(op) EXCEPT
                        !.status = out.status, !.readings = out.readings,
                        !.rows = out.rows,
                        !.events = classified(out.events),
                        !.sensor = sensor, !.window = window]
    /\ UNCHANGED <<store, config, scans, simulator>>

classify_anomalies(sensor, window) == Classify("classify_anomalies", sensor, window)

metrics_classify_anomalies(sensor, window) ==
    Classify("metrics.classify_anomalies", sensor, window)

(***************************************************************************)
(* metrics_endpoints.get_mtba (GET /metrics/mtba).                         *)
(***************************************************************************)
RECURSIVE SortedSet(_)
SortedSet(S) == IF S = {} THEN <<>> ELSE <<Min(S)>> \o SortedSet(S \ {Min(S)})

every_time(anomalies) == Sorted([i \in DOMAIN anomalies |-> anomalies[i].timestamp])

\* unique_times: the keys of timestamp_groups, sorted.
unique_times(anomalies) == SortedSet({anomalies[i].timestamp : i \in DOMAIN anomalies})

get_mtba(window, sensor) ==
    /\ \E out \in adaptive_outcomes(store, sensor, window) :
          LET anomalies == out.events
              times     == unique_times(anomalies)
              diffs     == Diffs(times)
              answer(value, samples) ==
                  [format_metric_response("get_mtba", value, samples) EXCEPT
                      !.readings = out.readings, !.rows = out.rows,
                      !.events = anomalies, !.sensor = sensor, !.window = window]
          IN  IF out.status = "error" THEN result' = answer(0, 0)
              ELSE IF anomalies = <<>> THEN result' = answer(0, 0)
              ELSE IF Len(anomalies) < 2 THEN result' = answer(0, Len(anomalies))
              ELSE IF Len(times) < 2 THEN result' = answer(0, Len(anomalies))
              ELSE \E mtba \in Round2(Sum(diffs), 60 * Len(diffs)) :
                     result' = answer(mtba, Len(anomalies))
    /\ UNCHANGED <<store, config, scans, simulator>>

(***************************************************************************)
(* metrics_endpoints.get_response_index (GET /metrics/response_index).     *)
(***************************************************************************)
\* The position in all_readings at which the inner loop breaks for the
\* anomaly a: the first reading of a's sensor stamped later than a; 0 when
\* the loop ends without a break.
first_later(all_readings, a) ==
    LET hits == {i \in DOMAIN all_readings :
                    /\ all_readings[i].sensor = a.sensor
                    /\ all_readings[i].timestamp > a.timestamp}
    IN  IF hits = {} THEN 0 ELSE Min(hits)

\* resp_times, in seconds.
resp_times(anomalies, all_readings) ==
    LET found == Select(anomalies, {i \in DOMAIN anomalies :
                                       first_later(all_readings, anomalies[i]) # 0})
    IN  [i \in DOMAIN found |->
            all_readings[first_later(all_readings, found[i])].timestamp - found[i].timestamp]

\* classify_anomalies raises what adaptive_anomalies raises; nothing here
\* catches it.  The readings are fetched a second time for the scan; the
\* break position may depend on the order of equal timestamps, the time
\* found does not, so one order stands for all.
get_response_index(window, sensor) ==
    /\ \E out \in adaptive_outcomes(store, sensor, window) :
          LET anomalies    == classified(out.events)
              all_readings == CHOOSE r \in fetch_all(store) : TRUE
              times        == resp_times(anomalies, all_readings)
              answer(value, samples) ==
                  [format_metric_response("get_response_index", value, samples) EXCEPT
                      !.readings = out.readings, !.rows = out.rows,
                      !.events = anomalies, !.sensor = sensor, !.window = window,
                      !.all_readings = all_readings]
          IN  IF out.status = "error"
              THEN result' = [answer(0, None) EXCEPT !.status = "error",
                                                     !.all_readings = <<>>]
              ELSE IF anomalies = <<>>
              THEN result' = [answer(0, 0) EXCEPT !.all_readings = <<>>]
              ELSE IF times = <<>> THEN result' = answer(0, Len(anomalies))
              ELSE \E avg_response_time \in Round2(Sum(times), 60 * Len(times)) :
                     result' = answer(avg_response_time, Len(anomalies))
    /\ UNCHANGED <<store, config, scans, simulator>>

\* --- The same call in the two steps another request can come between:
\* get_response_index is a coroutine on the event loop, DELETE /readings is
\* a plain function that FastAPI runs on a worker thread, on the same
\* database. ---
\* Up to the return of classify_anomalies: the anomalies of the readings
\* adaptive_anomalies fetched.  The call is over when that raises or finds
\* nothing; otherwise it goes on ("running").
response_index_classify(window, sensor) ==
    /\ \E out \in adaptive_outcomes(store, sensor, window) :
          LET anomalies == classified(out.events)
              begun == [format_metric_response("get_response_index", 0, None) EXCEPT
                           !.readings = out.readings, !.rows = out.rows,
                           !.events = anomalies, !.sensor = sensor, !.window = window]
          IN  result' = IF out.status = "error" THEN [begun EXCEPT !.status = "error"]
                        ELSE IF anomalies = <<>> THEN [begun EXCEPT !.samples = 0]
                        ELSE [begun EXCEPT !.status = "running"]
    /\ UNCHANGED <<store, config, scans, simulator>>

\* From all_readings = storage.fetch_all() to the return.
response_index_scan ==
    /\ result.op = "get_response_index" /\ result.status = "running"
    /\ LET all_readings == CHOOSE r \in fetch_all(store) : TRUE
           times        == resp_times(result.events, all_readings)
           answer(value) ==
               [result EXCEPT !.status = "ok", !.value = value,
                              !.samples = Len(result.events),
                              !.all_readings = all_readings]
       IN  IF times = <<>> THEN result' = answer(0)
           ELSE \E avg_response_time \in Round2(Sum(times), 60 * Len(times)) :
                  result' = answer(avg_response_time)
    /\ UNCHANGED <<store, config, scans, simulator>>

\* delete_readings (DELETE /readings) of another request while the call is
\* running: storage.clear_all().
delete_readings_meanwhile ==
    /\ result.status = "running"
    /\ store' = <<>>
    /\ config' = <<>>
    /\ UNCHANGED <<result, scans, simulator>>

(***************************************************************************)
(* metrics_endpoints.py: the metrics over a time window.                   *)
(***************************************************************************)
\* A stored timestamp text that datetime.fromisoformat rejects (the store
\* keeps whatever text the writer passed).  As a text it sorts before every
\* ISO timestamp.
Malformed == -2

\* Some timestamp of rs makes datetime.fromisoformat raise ValueError.
fromisoformat_fails(rs) == \E i \in DOMAIN rs : rs[i].timestamp = Malformed

in_window_exclusive(rs, start, end) ==
    Select(rs, {i \in DOMAIN rs :
                  /\ (start = None \/ rs[i].timestamp > start)
                  /\ (end = None \/ rs[i].timestamp < end)})

\* The list comprehensions `if start:` and `if end:` leave of rs.
in_window(rs, start, end) ==
    Select(rs, {i \in DOMAIN rs :
                  /\ (start = None \/ rs[i].timestamp >= start)
                  /\ (end = None \/ rs[i].timestamp <= end)})

SumOf(rs) == Sum([i \in DOMAIN rs |-> rs[i].value])

\* round(num / den, 3), in thousandths, as Round2.
Round3(num, den) ==
    LET q == (1000 * num) \div den
        r == (1000 * num) % den
    IN  IF 2 * r > den THEN {q + 1}
        ELSE IF 2 * r < den THEN {q}
        ELSE {q, q + 1}

\* round(sqrt(num / den), 2) in hundredths: the v nearest to 100 * sqrt.
Round2Sqrt(num, den) ==
    LET top == CHOOSE k \in 0..(num + 1) : k * k * den >= num
    IN  {v \in 0..(100 * top + 1) :
            /\ 40000 * num <= (2 * v + 1) * (2 * v + 1) * den
            /\ v > 0 => (2 * v - 1) * (2 * v - 1) * den <= 40000 * num}

\* The record of a metric computed on `readings` for the window asked.
window_record(op, readings, start, end, value, samples, expected_value) ==
    [format_metric_response(op, value, samples) EXCEPT
        !.readings = readings, !.start = start, !.end = end,
        !.expected_value = expected_value]

window_error(op, readings, start, end, status) ==
    [raise(op, status) EXCEPT !.readings = readings, !.start = start, !.end = end]

\* get_availability (GET /metrics/availability).  The timestamps of the
\* flow readings are parsed by the filters when a bound is given, and those
\* of the readings kept for the time span.
get_availability(start, end) ==
    /\ \E readings \in fetch_all(store) :
          LET flow_all      == OfSensor(readings, "flow")
              flow_readings == in_window(flow_all, start, end)
              total         == Len(flow_readings)
              non_zero      == Cardinality({i \in DOMAIN flow_readings :
                                               flow_readings[i].value > 0})
          IN  IF (start # None \/ end # None) /\ fromisoformat_fails(flow_all)
              THEN result' = window_error("get_availability", readings, start, end, "ValueError")
              ELSE IF total = 0
              THEN result' = window_record("get_availability", readings, start, end, 0, 0, 6000)
              ELSE IF fromisoformat_fails(flow_readings)
              THEN result' = window_error("get_availability", readings, start, end, "ValueError")
              ELSE \E availability \in Round2(100 * non_zero, total) :
                     result' = window_record("get_availability", readings, start, end,
                                             availability, total, 6000)
    /\ UNCHANGED <<store, config, scans, simulator>>

\* settings.TEMPERATURE_VARIATION, in degrees.
TEMPERATURE_VARIATION == 5

\* get_quality (GET /metrics/quality).  Readings with a bad timestamp are
\* skipped; start > end is rejected once there is a temperature reading.
get_quality(start, end) ==
    /\ \E readings \in fetch_all(store) :
          LET temps     == OfSensor(readings, "temperature")
              temp_logs == Select(temps, {i \in DOMAIN temps : temps[i].timestamp # Malformed})
              times     == {temp_logs[i].timestamp : i \in DOMAIN temp_logs}
              start_dt  == IF start # None THEN start ELSE Min(times)
              end_dt    == IF end # None THEN end ELSE Max(times)
              window_logs == in_window(temp_logs, start_dt, end_dt)
              total     == Len(window_logs)
              within_count ==
                  Cardinality({i \in DOMAIN window_logs :
                      2 * Abs(window_logs[i].value - SETPOINT_TEMP_DEFAULT)
                          <= TEMPERATURE_VARIATION})
          IN  IF temp_logs = <<>>
              THEN result' = window_record("get_quality", readings, start, end, 0, 0, 9500)
              ELSE IF start_dt > end_dt
              THEN result' = window_error("get_quality", readings, start, end, "400")
              ELSE IF total = 0
              THEN result' = window_record("get_quality", readings, start, end, 0, 0, 9500)
              ELSE \E quality_percent \in Round2(100 * within_count, total) :
                     result' = window_record("get_quality", readings, start, end,
                                             quality_percent, total, 9500)
    /\ UNCHANGED <<store, config, scans, simulator>>

\* The efficiency from the sum of the power and of the flow values kept.
efficiency_per_flow_sum(power_sum, flow_sum) ==
    IF flow_sum > 0 THEN Round3(10 * power_sum, 60 * flow_sum) ELSE {0}

\* efficiency = round(total_kwh / total_liters, 3) if total_liters > 0 else
\* 0.0: power is in 0.01 kW and flow in 0.001 L/min, and both sums are
\* multiplied by 1/60.
efficiency(power_sum, flow_sum) ==
    IF flow_sum > 0 THEN Round3(10 * power_sum, flow_sum) ELSE {0}

\* get_energy_efficiency (GET /metrics/energy_efficiency).
get_energy_efficiency(start, end) ==
    /\ \E readings \in fetch_all(store) :
          LET power_all == OfSensor(readings, "power")
              flow_all  == OfSensor(readings, "flow")
              power_readings == in_window(power_all, start, end)
              flow_readings  == in_window(flow_all, start, end)
          IN  IF /\ start # None \/ end # None
                 /\ fromisoformat_fails(power_all) \/ fromisoformat_fails(flow_all)
              THEN result' = window_error("get_energy_efficiency", readings, start, end,
                                          "ValueError")
              ELSE \E e \in efficiency(SumOf(power_readings), SumOf(flow_readings)) :
                     result' = window_record("get_energy_efficiency", readings, start, end,
                                             e, Len(power_readings), 51)
    /\ UNCHANGED <<store, config, scans, simulator>>

\* get_thermal_variation (GET /metrics/thermal_variation): the sample
\* standard deviation of the temperatures in the window.
get_thermal_variation(start, end) ==
    /\ \E readings \in fetch_all(store) :
          LET temp_all      == OfSensor(readings, "temperature")
              temp_readings == in_window(temp_all, start, end)
              n             == Len(temp_readings)
              S             == SumOf(temp_readings)
              Q             == Sum([i \in DOMAIN temp_readings |->
                                      temp_readings[i].value * temp_readings[i].value])
          IN  IF (start # None \/ end # None) /\ fromisoformat_fails(temp_all)
              THEN result' = window_error("get_thermal_variation", readings, start, end,
                                          "ValueError")
              ELSE IF n < 2
              THEN result' = window_record("get_thermal_variation", readings, start, end,
                                           0, n, None)
              ELSE \E variation \in Round2Sqrt(n * Q - S * S, n * (n - 1)) :
                     result' = window_record("get_thermal_variation", readings, start, end,
                                             variation, n, 200)
    /\ UNCHANGED <<store, config, scans, simulator>>

\* settings.AVG_FLOW_RATE_DEFAULT, in 0.001 L/min.
AVG_FLOW_RATE_DEFAULT == 8

\* get_peak_flow_ratio (GET /metrics/peak_flow_ratio).  A stored
\* configuration has no avg_flow_rate: config.get returns None and the
\* product None * users raises TypeError.
get_peak_flow_ratio(users) ==
    /\ \E readings \in fetch_all(store) :
          LET flow_readings == OfSensor(readings, "flow")
              max_flow      == Max({flow_readings[i].value : i \in DOMAIN flow_readings})
              nominal_system_flow == AVG_FLOW_RATE_DEFAULT * users * 5
              rec(value, samples, expected_value) ==
                  [window_record("get_peak_flow_ratio", readings, None, None,
                                 value, samples, expected_value) EXCEPT !.users = users]
          IN  IF flow_readings = <<>> THEN result' = rec(0, 0, 0)
              ELSE IF config # <<>>
              THEN result' = window_error("get_peak_flow_ratio", readings, None, None,
                                          "TypeError")
              ELSE \E ratio \in Round2(max_flow, nominal_system_flow) :
                     result' = [rec(ratio, Len(flow_readings), 100) EXCEPT !.unit = "ratio"]
    /\ UNCHANGED <<store, config, scans, simulator>>

\* The keyword arguments LocalStorage.save_config can be called with.
save_config_accepts_any(kwargs) == TRUE

save_config_accepts(kwargs) == kwargs \subseteq {"user_quantity", "hours"}

\* storage.save_config(user_quantity=..., hours=..., avg_flow_rate=...,
\* temp_setpoint=..., heater_regime=...): Python binds the keywords to the
\* parameters before the body runs and raises TypeError for one the
\* function does not have.  The detail is the three further values passed.
save_config_keywords(user_quantity, hours, avg_flow_rate, temp_setpoint, heater_regime) ==
    LET called == [Outcome("save_config") EXCEPT
                      !.users = user_quantity, !.hours = hours,
                      !.detail = <<avg_flow_rate, temp_setpoint, heater_regime>>]
    IN  IF save_config_accepts({"user_quantity", "hours", "avg_flow_rate",
                                "temp_setpoint", "heater_regime"})
        THEN /\ config' = <<[user_quantity |-> user_quantity, hours |-> hours]>>
             /\ result' = called
             /\ UNCHANGED <<store, scans, simulator>>
        ELSE /\ result' = [called EXCEPT !.status = "TypeError"]
             /\ UNCHANGED <<store, config, scans, simulator>>

\* storage.get_config() called on its own: the detail is the dictionary
\* returned, or nothing for None.
read_config ==
    /\ result' = [Outcome("get_config") EXCEPT
                     !.detail = IF config = <<>> THEN <<>> ELSE <<get_config(config)>>]
    /\ UNCHANGED <<store, config, scans, simulator>>

\* LocalStorage(): a new instance on the same database file; both tables
\* are created only if they do not exist.
LocalStorage ==
    /\ result' = Outcome("LocalStorage")
    /\ UNCHANGED <<store, config, scans, simulator>>

\* Sum of prev.value * (seconds to the next log) over consecutive logs.
RECURSIVE integrated(_)
integrated(flow_logs) ==
    IF Len(flow_logs) < 2 THEN 0
    ELSE flow_logs[1].value * Abs(flow_logs[2].timestamp - flow_logs[1].timestamp)
            + integrated(Tail(flow_logs))

\* get_performance (GET /metrics/performance).  Without a stored
\* configuration it calls save_config with keywords save_config does not
\* have, which raises TypeError before anything is written; the
\* configuration get_config returns, and the default one, have no
\* 'avg_flow_rate', so the expected liters raise KeyError.
get_performance(users, hours) ==
    LET stored == get_config(config)
        is_none == config = <<>>
        cfg    == IF is_none THEN [user_quantity |-> 1, hours |-> 1] ELSE stored
        users_final == IF users # None THEN users ELSE cfg.user_quantity
        hours_final == IF hours # None THEN hours ELSE cfg.hours
        saves  == is_none
                    /\ save_config_accepts({"user_quantity", "hours", "avg_flow_rate",
                                            "temp_setpoint", "heater_regime"})
    IN  IF is_none /\ ~saves
        THEN /\ result' = raise("get_performance", "TypeError")
             /\ UNCHANGED <<store, config, scans, simulator>>
        ELSE /\ config' = IF saves THEN <<cfg>> ELSE config
             /\ UNCHANGED <<store, scans, simulator>>
             /\ \E readings \in fetch_all(store),
                   flow_logs \in TimeOrders(OfSensor(store, "flow"),
                                            DOMAIN OfSensor(store, "flow"), FALSE) :
                   IF Len(flow_logs) >= 2 /\ fromisoformat_fails(flow_logs)
                   THEN result' = window_error("get_performance", readings, None, None,
                                               "ValueError")
                   ELSE IF "avg_flow_rate" \notin DOMAIN cfg
                   THEN result' = window_error("get_performance", readings, None, None,
                                               "KeyError")
                   ELSE \E performance_ratio \in
                              Round3(integrated(flow_logs),
                                     3600 * cfg.avg_flow_rate * users_final * hours_final) :
                          result' = [window_record("get_performance", readings, None, None,
                                         performance_ratio, Len(flow_logs),
                                         6 * cfg.avg_flow_rate * users_final * hours_final)
                                       EXCEPT !.users = users_final, !.hours = hours_final]

\* The services per hour from the gaps between them rather than their count.
usage_rate_of_gaps(total_services, span) ==
    IF span > 0 THEN Round2(3600 * (total_services - 1), span) ELSE {0}

\* usage_rate = round(total_services / time_span_hours, 2) if
\* time_span_hours > 0 else 0.0, the span in seconds.
usage_rate(total_services, span) ==
    IF span > 0 THEN Round2(3600 * total_services, span) ELSE {0}

\* get_usage_rate (GET /metrics/usage_rate).  in_range parses the timestamp
\* of every flow reading with a positive value.
get_usage_rate(start, end) ==
    /\ \E reads \in fetch_all(store) :
          LET services == Select(reads, {i \in DOMAIN reads :
                                           reads[i].sensor = "flow" /\ reads[i].value > 0})
              flow_readings  == in_window(services, start, end)
              total_services == Len(flow_readings)
              times == {flow_readings[i].timestamp : i \in DOMAIN flow_readings}
              span  == Max(times) - Min(times)
              rec(value, samples) ==
                  window_record("get_usage_rate", reads, start, end, value, samples, 1000)
          IN  IF fromisoformat_fails(services)
              THEN result' = window_error("get_usage_rate", reads, start, end, "ValueError")
              ELSE IF total_services = 0 THEN result' = rec(0, 0)
              ELSE \E rate \in usage_rate(total_services, span), h \in Round2(span, 3600) :
                     result' = [rec(rate, total_services) EXCEPT !.hours = h]
    /\ UNCHANGED <<store, config, scans, simulator>>

\* datetime.timedelta(weeks=1) in seconds.
Week == 604800

\* The branch of the if/elif chain of get_failures_count a reading takes:
\* the sensor whose failure list it is appended to, or NoSensor.
failure_type_no_sensor_test(r) ==
    IF Abs(r.value - SETPOINT_TEMP_DEFAULT) > TMP_TOLERANCE THEN "temperature"
    ELSE IF r.value <= FLOW_INACTIVITY_THRESHOLD THEN "flow"
    ELSE IF r.value < LEVEL_LOW_THRESHOLD THEN "level"
    ELSE IF r.value > POWER_HIGH_THRESHOLD THEN "power"
    ELSE NoSensor

failure_type(r) ==
    IF r.sensor = "temperature" /\ Abs(r.value - SETPOINT_TEMP_DEFAULT) > TMP_TOLERANCE
    THEN "temperature"
    ELSE IF r.sensor = "flow" /\ r.value <= FLOW_INACTIVITY_THRESHOLD THEN "flow"
    ELSE IF r.sensor = "level" /\ r.value < LEVEL_LOW_THRESHOLD THEN "level"
    ELSE IF r.sensor = "power" /\ r.value > POWER_HIGH_THRESHOLD THEN "power"
    ELSE NoSensor

\* get_failures_count (GET /metrics/failures_count); now is utcnow(),
\* recorded as the end of the window, weeks as the window.  The detail is
\* the length of the four failure lists: temperature, flow, level, power.
get_failures_count(weeks, now) ==
    /\ \E reads \in fetch_all(store) :
          LET cutoff == now - weeks * Week
              filtered_readings ==
                  Select(reads, {i \in DOMAIN reads : ~(reads[i].timestamp < cutoff)})
              failures(name) ==
                  Cardinality({i \in DOMAIN filtered_readings :
                                  failure_type(filtered_readings[i]) = name})
              counts == <<failures("temperature"), failures("flow"),
                          failures("level"), failures("power")>>
              times  == {filtered_readings[i].timestamp : i \in DOMAIN filtered_readings}
              span   == IF times = {} THEN 0 ELSE Max(times) - Min(times)
          IN  IF fromisoformat_fails(reads)
              THEN result' = [window_error("get_failures_count", reads, None, now,
                                           "ValueError") EXCEPT !.window = weeks]
              ELSE \E time_span_hours \in Round2(span, 3600) :
                     result' = [window_record("get_failures_count", reads, None, now,
                                              Sum(counts), Len(filtered_readings),
                                              1000 * weeks)
                                  EXCEPT !.hours = time_span_hours, !.detail = counts,
                                         !.window = weeks]
    /\ UNCHANGED <<store, config, scans, simulator>>

(***************************************************************************)
(* The requests of the static detector in progress, and the simulator.     *)
(***************************************************************************)
\* The requests of GET /anomalies/static that can be in progress together.
Calls == {1, 2}

\* The locals of one call of get_anomalies: the readings fetched, the
\* position of the loop in them, flow_zero_count and anomalies.
NoScan == [pc |-> "idle", readings |-> <<>>, i |-> 0, flow_zero_count |-> 0,
           anomalies |-> <<>>]

\* simulator.HEATER_REGIME_DEFAULT, in 0.01 kW per degree.
HEATER_REGIME_DEFAULT == 10

\* The adjustable parameters of the one SensorSimulator instance.
SensorSimulator(avg_flow_rate, temp_setpoint, heater_regime) ==
    [avg_flow_rate |-> avg_flow_rate, temp_setpoint |-> temp_setpoint,
     heater_regime |-> heater_regime]

\* --- get_anomalies step by step: it is a plain function, so FastAPI runs
\* each request on a worker thread and two calls can alternate. ---
\* The counter a call starts with, given what the call before it on the same
\* thread left in its own.
flow_zero_count_left(left) == left

\* flow_zero_count = 0: a local variable, set when the call starts.
flow_zero_count_start(left) == 0

\* readings = storage.fetch_all(); anomalies = []; flow_zero_count = 0.
get_anomalies_fetch(c) ==
    /\ scans[c].pc # "loop"
    /\ \E readings \in fetch_all(store) :
          scans' = [scans EXCEPT ![c] =
                       [pc |-> "loop", readings |-> readings, i |-> 1,
                        flow_zero_count |-> flow_zero_count_start(scans[c].flow_zero_count),
                        anomalies |-> <<>>]]
    /\ UNCHANGED <<store, config, result, simulator>>

\* One iteration of `for r in readings`.
get_anomalies_loop(c) ==
    /\ scans[c].pc = "loop"
    /\ scans[c].i <= Len(scans[c].readings)
    /\ LET r     == scans[c].readings[scans[c].i]
           count == FlowCount(scans[c].flow_zero_count, r)
       IN  scans' = [scans EXCEPT ![c] =
                        [@ EXCEPT !.i = @ + 1, !.flow_zero_count = count,
                                  !.anomalies = @ \o StaticEvents(r, count,
                                                                  SETPOINT_TEMP_DEFAULT)]]
    /\ UNCHANGED <<store, config, result, simulator>>

\* return anomalies.
get_anomalies_return(c) ==
    /\ scans[c].pc = "loop"
    /\ scans[c].i > Len(scans[c].readings)
    /\ scans' = [scans EXCEPT ![c] = [@ EXCEPT !.pc = "done"]]
    /\ result' = [Outcome("get_anomalies") EXCEPT
                     !.readings = scans[c].readings, !.events = scans[c].anomalies]
    /\ UNCHANGED <<store, config, simulator>>

(***************************************************************************)
(* Writers.  A simulation step stores the frame of one minute, stamped     *)
(* later than everything stored before (simulate_endpoints.simulate_usage).*)
(***************************************************************************)
LastTime(rows) == IF rows = <<>> THEN 0 ELSE Max({rows[i].timestamp : i \in DOMAIN rows})

\* The process after its modules are loaded: no request is running, and
\* simulate_endpoints has built the simulator with the default parameters.
Started ==
    /\ result = Outcome("init")
    /\ scans = [c \in Calls |-> NoScan]
    /\ simulator = SensorSimulator(AVG_FLOW_RATE_DEFAULT, SETPOINT_TEMP_DEFAULT,
                                   HEATER_REGIME_DEFAULT)

Init == store = <<>> /\ config = <<>> /\ Started

\* --- Flow-only stores, long enough for two full inactivity runs. ---
FlowValues == {1, 2}

SaveFlow ==
    /\ Len(store) < MaxFlowReadings
    /\ \E v \in FlowValues : save_batch(<<Reading("flow", LastTime(store) + 60, v)>>)

NextFlow == SaveFlow \/ clear_all \/ get_anomalies \/ detect_anomalies

SpecFlow == Init /\ [][NextFlow]_vars

\* --- All four sensors, values on both sides of every threshold. ---
StaticInputs ==
    ({"flow"} \X {1, 2}) \cup ({"temperature"} \X {27, 28, 62, 63, 57, 58})
        \cup ({"level"} \X {1, 2}) \cup ({"power"} \X {4, 5})

SaveStatic ==
    /\ Len(store) < MaxStaticReadings
    /\ \E in \in StaticInputs :
          save_batch(<<Reading(in[1], LastTime(store) + 60, in[2])>>)

NextStatic == SaveStatic \/ clear_all \/ get_anomalies \/ detect_anomalies

SpecStatic == Init /\ [][NextStatic]_vars

\* --- Low and high flow and an overtemperature, at irregular times. ---
MtbfInputs ==
    ({"flow"} \X {1, 2}) \cup ({"temperature"} \X {63})

MtbfGaps == {0, 60, 9000}

MtbfBounds == {None, 60}

SaveMtbf ==
    /\ Len(store) < MaxMtbfReadings
    /\ \E in \in MtbfInputs, gap \in MtbfGaps :
          save_batch(<<Reading(in[1], LastTime(store) + gap, in[2])>>)

GetMtbf == \E start \in MtbfBounds, end \in MtbfBounds : get_mtbf(start, end)

NextMtbf == SaveMtbf \/ clear_all \/ get_anomalies \/ GetMtbf

SpecMtbf == Init /\ [][NextMtbf]_vars

\* --- Series long enough for the rolling window.  The database file
\* outlives the process, so a run can start on the readings of an earlier
\* one: nothing, or BaselineLen rounds of one constant value for one sensor
\* or for two sensors in turn; new readings follow at the same or the next
\* second. ---
Baseline(sensors, c) ==
    [k \in 1..(BaselineLen * Len(sensors)) |->
        Reading(sensors[((k - 1) % Len(sensors)) + 1], k - 1, c)]

\* Both sensors of the two-sensor series then leave the constant at once.
Spiked ==
    Baseline(<<"flow", "temperature">>, 0)
        \o <<Reading("flow", 2 * BaselineLen, 6), Reading("temperature", 2 * BaselineLen, 6)>>

Baselines ==
    {<<>>, Baseline(<<"flow">>, 10), Baseline(<<"flow">>, 0),
     Baseline(<<"temperature">>, 10), Baseline(<<"power">>, 10),
     Baseline(<<"level">>, 10), Baseline(<<"flow", "temperature">>, 0), Spiked}

InitAdaptive == store \in Baselines /\ config = <<>> /\ Started

NewReadings(rows) ==
    Len(rows) - Max({Len(b) : b \in {x \in Baselines :
                                       /\ Len(x) <= Len(rows)
                                       /\ SubSeq(rows, 1, Len(x)) = x}})

AdaptiveValues == {6, 100}

AdaptiveGaps == {0, 1}

SensorsIn(rows) == IF rows = <<>> THEN {"flow"} ELSE {rows[i].sensor : i \in DOMAIN rows}

\* How many stored readings carry the latest timestamp.
Latest(rows) == Cardinality({i \in DOMAIN rows : rows[i].timestamp = LastTime(rows)})

SaveAdaptive ==
    /\ NewReadings(store) < MaxNewReadings
    /\ \E s \in SensorsIn(store), v \in AdaptiveValues, gap \in AdaptiveGaps :
          /\ gap = 0 => Latest(store) < MaxTies
          /\ save_batch(<<Reading(s, LastTime(store) + gap, v)>>)

SensorFilters == {NoSensor, "flow"}

\* window has ge=5 on GET /anomalies/adaptive and ge=1 on the endpoints
\* that call adaptive_anomalies themselves.
AdaptiveWindows == {5, 6}

Windows == {2, 5}

AdaptiveAnomalies ==
    \E s \in SensorFilters, w \in AdaptiveWindows : adaptive_anomalies(s, w)

ClassifyAnomalies == \E s \in SensorFilters, w \in Windows : classify_anomalies(s, w)

MetricsClassifyAnomalies ==
    \E s \in SensorFilters, w \in Windows : metrics_classify_anomalies(s, w)

GetMtba == \E s \in SensorFilters, w \in Windows : get_mtba(w, s)

NextAdaptive == SaveAdaptive \/ clear_all \/ AdaptiveAnomalies

SpecAdaptive == InitAdaptive /\ [][NextAdaptive]_vars

NextClassify == SaveAdaptive \/ clear_all \/ ClassifyAnomalies \/ MetricsClassifyAnomalies

SpecClassify == InitAdaptive /\ [][NextClassify]_vars

NextMtba == SaveAdaptive \/ clear_all \/ GetMtba

SpecMtba == InitAdaptive /\ [][NextMtba]_vars

\* --- The same series with readings a minute apart, for the recovery scan. ---
ResponseGaps == {0, 60}

SaveResponse ==
    /\ NewReadings(store) < MaxNewReadings
    /\ \E s \in SensorsIn(store), v \in AdaptiveValues, gap \in ResponseGaps :
          /\ gap = 0 => Latest(store) < MaxTies
          /\ save_batch(<<Reading(s, LastTime(store) + gap, v)>>)

GetResponseIndex == \E s \in SensorFilters, w \in Windows : get_response_index(w, s)

NextResponse == SaveResponse \/ clear_all \/ GetResponseIndex \/ GetMtba

SpecResponse == InitAdaptive /\ [][NextResponse]_vars

\* --- Readings a minute apart, of three sensors, for the metrics over a
\* window; a configuration may be stored. ---
Save(inputs, gaps, max) ==
    /\ Len(store) < max
    /\ \E in \in inputs, gap \in gaps :
          save_batch(<<Reading(in[1], LastTime(store) + gap, in[2])>>)

MetricInputs == {<<"flow", 8>>, <<"temperature", 60>>, <<"temperature", 63>>, <<"power", 5>>}

MetricGaps == {60}

\* Absent, or a time before or at the readings' times.
MetricBounds == {None, 0, 60}

Users == {None, 1, 2}

SaveMetric == Save(MetricInputs, MetricGaps, MaxMetricReadings)

SaveConfig == \E u \in {1, 2} : save_config(u, 1)

GetAvailability == \E start \in MetricBounds, end \in MetricBounds : get_availability(start, end)

GetQuality == \E start \in MetricBounds, end \in MetricBounds : get_quality(start, end)

GetEnergyEfficiency ==
    \E start \in MetricBounds, end \in MetricBounds : get_energy_efficiency(start, end)

GetThermalVariation ==
    \E start \in MetricBounds, end \in MetricBounds : get_thermal_variation(start, end)

GetPerformance == \E users \in Users, hours \in {None, 1} : get_performance(users, hours)

GetPeakFlowRatio == \E users \in {1, 2} : get_peak_flow_ratio(users)

NextMetrics ==
    \/ SaveMetric \/ SaveConfig \/ clear_all
    \/ GetAvailability \/ GetPerformance \/ GetQuality
    \/ GetEnergyEfficiency \/ GetThermalVariation \/ GetPeakFlowRatio

SpecMetrics == Init /\ [][NextMetrics]_vars

\* --- Readings whose timestamp text is whatever the caller of
\* POST /simulate passed: an ISO time or a text that is none. ---
BadTimes == {Malformed, 0, 60}

BadInputs == ({"flow"} \X {0, 8}) \cup ({"temperature"} \X {60, 63})

SaveAnyTime ==
    /\ Len(store) < MaxMetricReadings
    /\ \E in \in BadInputs, t \in BadTimes : save_batch(<<Reading(in[1], t, in[2])>>)

BadBounds == {None, 0, 60}

GetAvailabilityAnyTime ==
    \E start \in BadBounds, end \in BadBounds : get_availability(start, end)

GetQualityAnyTime == \E start \in BadBounds, end \in BadBounds : get_quality(start, end)

NextMalformed == SaveAnyTime \/ clear_all \/ GetAvailabilityAnyTime \/ GetQualityAnyTime

SpecMalformed == Init /\ [][NextMalformed]_vars

\* --- Flow readings, zero or positive, among readings of another sensor,
\* for the availability. ---
AvailabilityInputs == ({"flow"} \X {0, 8}) \cup ({"power"} \X {5})

AvailabilityBounds == {None, 0, 60}

SaveAvailability == Save(AvailabilityInputs, {0, 60}, MaxRateReadings)

GetAvailabilityIn ==
    \E start \in AvailabilityBounds, end \in AvailabilityBounds : get_availability(start, end)

NextAvailability == SaveAvailability \/ clear_all \/ GetAvailabilityIn

SpecAvailability == Init /\ [][NextAvailability]_vars

\* --- Flow readings together, a minute or an hour apart, for the usage
\* rate. ---
UsageBounds == {None, 3600}

SaveUsage == Save({"flow"} \X {0, 8}, {0, 60, 3600}, MaxRateReadings)

GetUsageRate == \E start \in UsageBounds, end \in UsageBounds : get_usage_rate(start, end)

NextUsage == SaveUsage \/ clear_all \/ GetUsageRate

SpecUsage == Init /\ [][NextUsage]_vars

\* --- Power and flow readings a minute apart, for the energy efficiency. ---
EnergyInputs == ({"flow"} \X {0, 8, 12}) \cup ({"power"} \X {3, 5})

EnergyBounds == {None, 60}

SaveEnergy == Save(EnergyInputs, {60}, MaxRateReadings)

GetEnergyEfficiencyIn ==
    \E start \in EnergyBounds, end \in EnergyBounds : get_energy_efficiency(start, end)

NextEnergy == SaveEnergy \/ clear_all \/ GetEnergyEfficiencyIn

SpecEnergy == Init /\ [][NextEnergy]_vars

\* --- Readings of the four sensors, failing their rule or not, stamped
\* around the instants one and two weeks before the clock's time. ---
FailureInputs ==
    {<<"temperature", 63>>, <<"flow", 0>>, <<"flow", 8>>, <<"level", 1>>, <<"power", 5>>}

\* utcnow() at the calls: two weeks and a second after time 0.
Clock == {2 * Week + 1}

\* Before both cutoffs, at the cutoff of two weeks, just before and at the
\* cutoff of one week.
FailureTimes == {0, 1, Week, Week + 1}

SaveFailure ==
    /\ Len(store) < MaxFailureReadings
    /\ \E in \in FailureInputs, t \in FailureTimes :
          save_batch(<<Reading(in[1], t, in[2])>>)

GetFailuresCount == \E weeks \in {1, 2}, now \in Clock : get_failures_count(weeks, now)

NextFailures == SaveFailure \/ clear_all \/ GetFailuresCount

SpecFailures == Init /\ [][NextFailures]_vars

\* --- Every detector and metric on one store, with or without a stored
\* configuration. ---
QueryInputs == {<<"flow", 0>>, <<"flow", 8>>, <<"temperature", 63>>}

QueryBounds == {None, 60}

SaveQueried == Save(QueryInputs, {60}, MaxMetricReadings)

Detectors ==
    \/ get_anomalies
    \/ detect_anomalies
    \/ \E s \in SensorFilters, w \in {5} : adaptive_anomalies(s, w)
    \/ \E s \in SensorFilters, w \in {2} : classify_anomalies(s, w)
    \/ \E s \in SensorFilters, w \in {2} : metrics_classify_anomalies(s, w)

AnomalyMetrics ==
    \/ \E start \in QueryBounds, end \in QueryBounds : get_mtbf(start, end)
    \/ \E s \in SensorFilters, w \in {2} : get_mtba(w, s)
    \/ \E s \in SensorFilters, w \in {2} : get_response_index(w, s)
    \/ \E weeks \in {1, 2}, now \in Clock : get_failures_count(weeks, now)

WindowMetrics ==
    \/ \E start \in QueryBounds, end \in QueryBounds : get_availability(start, end)
    \/ \E start \in QueryBounds, end \in QueryBounds : get_quality(start, end)
    \/ \E start \in QueryBounds, end \in QueryBounds : get_energy_efficiency(start, end)
    \/ \E start \in QueryBounds, end \in QueryBounds : get_thermal_variation(start, end)
    \/ \E start \in QueryBounds, end \in QueryBounds : get_usage_rate(start, end)

ConfiguredMetrics ==
    \/ \E users \in {None, 2}, hours \in {None, 1} : get_performance(users, hours)
    \/ \E users \in {1, 2} : get_peak_flow_ratio(users)

NextQueries ==
    \/ SaveQueried \/ SaveConfig \/ clear_config \/ clear_all
    \/ Detectors \/ AnomalyMetrics \/ WindowMetrics \/ ConfiguredMetrics

SpecQueries == Init /\ [][NextQueries]_vars

\* --- A response index call with the requests that can run during it. ---
Idle == result.status # "running"

SaveIdle == Idle /\ SaveResponse

ClearIdle == Idle /\ clear_all

ResponseIndexClassify ==
    Idle /\ \E s \in SensorFilters, w \in Windows : response_index_classify(w, s)

NextSnapshot ==
    \/ SaveIdle \/ ClearIdle \/ ResponseIndexClassify
    \/ delete_readings_meanwhile \/ response_index_scan

SpecSnapshot == InitAdaptive /\ [][NextSnapshot]_vars

\* --- Two requests of the static detector at a time on flow readings a
\* minute apart; readings are stored between the loops. ---
NoLoop == \A c \in Calls : scans[c].pc # "loop"

SaveScanned == NoLoop /\ Save({"flow"} \X {0, 8}, {60}, MaxScanReadings)

NextScans ==
    \/ SaveScanned
    \/ \E c \in Calls : get_anomalies_fetch(c)
    \/ \E c \in Calls : get_anomalies_loop(c)
    \/ \E c \in Calls : get_anomalies_return(c)

SpecScans == Init /\ [][NextScans]_vars

\* --- Flow readings among readings of a sensor kind the detector does not
\* know, whose value would breach the rule of a known one. ---
UnknownInputs ==
    {<<"flow", 1>>, <<"flow", 2>>, <<"temperature", 63>>, <<"humidity", 0>>}

SaveUnknown == Save(UnknownInputs, {60}, MaxMixedReadings)

NextUnknown == SaveUnknown \/ clear_all \/ get_anomalies \/ detect_anomalies

SpecUnknown == Init /\ [][NextUnknown]_vars

\* --- Flow readings among readings of the three other sensors. ---
InterleavedInputs ==
    {<<"flow", 1>>, <<"flow", 2>>, <<"temperature", 63>>, <<"level", 1>>, <<"power", 5>>}

SaveInterleaved == Save(InterleavedInputs, {60}, MaxMixedReadings)

NextInterleaved == SaveInterleaved \/ clear_all \/ get_anomalies \/ detect_anomalies

SpecInterleaved == Init /\ [][NextInterleaved]_vars

\* --- The configuration table under every call of the storage that
\* touches it. ---
SaveConfigPositional == \E u \in {1, 2, 3}, h \in {1, 2} : save_config(u, h)

SaveConfigKeywords ==
    \E u \in {1, 3}, h \in {1, 2}, f \in {8, 12}, t \in {60, 65}, g \in {10, 15} :
        save_config_keywords(u, h, f, t, g)

NextConfig ==
    \/ SaveConfigPositional \/ SaveConfigKeywords
    \/ clear_config \/ clear_all \/ read_config \/ LocalStorage

SpecConfig == Init /\ [][NextConfig]_vars

\* --- Flow readings of 0 and 1 L/min stored one a minute, in time order,
\* and the endpoint detector over them. ---
RunValues == {0, 1000}

SaveRun == Save({"flow"} \X RunValues, {60}, MaxRunReadings)

NextRun == SaveRun \/ clear_all \/ get_anomalies

SpecRun == Init /\ [][NextRun]_vars

\* --- Short series of two sensors under every window up to 5, through the
\* entry points that accept them (window has ge=1 there). ---
WindowInputs == ({"flow"} \X {0, 3}) \cup ({"temperature"} \X {3})

SaveWindow == Save(WindowInputs, {1}, MaxWindowReadings)

SmallWindows == 1..5

ClassifySmall == \E w \in SmallWindows : classify_anomalies(NoSensor, w)

GetMtbaSmall == \E w \in SmallWindows : get_mtba(w, NoSensor)

GetResponseIndexSmall == \E w \in SmallWindows : get_response_index(w, NoSensor)

NextWindows ==
    SaveWindow \/ clear_all \/ ClassifySmall \/ GetMtbaSmall \/ GetResponseIndexSmall

SpecWindows == Init /\ [][NextWindows]_vars

(***************************************************************************)
(* simulator.py and simulate_endpoints.py.  Flow rates are in steps of     *)
(* 0.001 L/min, temperatures in degrees, levels in tenths, powers and the  *)
(* heater regime in hundredths.                                            *)
(***************************************************************************)
PIPE_MAX_LPM == 30000

\* The random draws of one frame: the factor of the flow variation in
\* tenths (uniform in 0.8 .. 1.2), the temperature (60 +- 5), the level
\* (0 .. 1) and the power (0 .. 10): both ends of every range.
FrameDraws ==
    {[factor |-> 8, temperature |-> 55, level |-> 0, power |-> 0],
     [factor |-> 12, temperature |-> 65, level |-> 10, power |-> 1000]}

\* round(x / 10) for the flow, which is a whole number of steps plus a
\* fraction that is never a half in the draws above.
RoundTenths(x) == (x + 5) \div 10

\* SensorSimulator.sensors_count
sensors_count == 4

Raised(exception) == [raised |-> exception, frame |-> <<>>]

Returned(frame) == [raised |-> "", frame |-> frame]

\* SensorSimulator.generate_frame on the simulator sim: the readings, or
\* the exception raised.  self.avg_flow_rate * users comes first and is a
\* TypeError when avg_flow_rate is None.
generate_frame(sim, ts, users, sensor, value, draw) ==
    IF sim.avg_flow_rate = None THEN Raised("TypeError")
    ELSE LET flow_lpm == Min({PIPE_MAX_LPM, RoundTenths(sim.avg_flow_rate * users * draw.factor)})
             defaults == [flow |-> flow_lpm, temperature |-> draw.temperature,
                          level |-> draw.level, power |-> draw.power]
             make_reading(name) ==
                 Reading(name, ts, IF sensor = name /\ value # None THEN value
                                   ELSE defaults[name])
         IN  IF sensor # NoSensor
             THEN IF sensor \notin DOMAIN defaults THEN Raised("ValueError")
                  ELSE Returned(<<make_reading(sensor)>>)
             ELSE Returned(<<make_reading("flow"), make_reading("temperature"),
                             make_reading("level"), make_reading("power")>>)

\* The batches of the loop of simulate_usage from minute `minute` on, one
\* after the other as save_batch stores them.
RECURSIVE usage_batches(_, _, _, _, _, _, _, _)
usage_batches(sim, minute, total_minutes, timestamp, users, sensor, value, draw) ==
    IF minute >= total_minutes THEN <<>>
    ELSE generate_frame(sim, IF timestamp # None THEN timestamp ELSE 60 * minute,
                        users, sensor, value, draw).frame
            \o usage_batches(sim, minute + 1, total_minutes, timestamp, users, sensor,
                             value, draw)

\* POST /simulate/simulate.  clear_all and save_config are committed before
\* the first frame, so an exception of generate_frame leaves the store
\* empty and the configuration saved.  Every frame of one call is given
\* the same draw; `now` is 0.
simulate_usage(hours, users, sensor, value, timestamp, draw) ==
    LET total_minutes == hours * 60
        first == generate_frame(simulator, 0, users, sensor, value, draw)
        called == [Outcome("simulate_usage") EXCEPT
                      !.hours = hours, !.users = users, !.sensor = sensor]
    IN  /\ config' = <<[user_quantity |-> users, hours |-> hours]>>
        /\ IF first.raised # ""
           THEN /\ store' = <<>>
                /\ result' = [called EXCEPT !.status = first.raised]
           ELSE LET generated == usage_batches(simulator, 0, total_minutes, timestamp,
                                               users, sensor, value, draw)
                IN  /\ store' = generated
                    /\ result' = [called EXCEPT
                                     !.readings = generated,
                                     !.samples = total_minutes * sensors_count]
        /\ UNCHANGED <<scans, simulator>>

\* cfg.get(key, default) on the dictionary of a ScenarioConfig: c.dict()
\* holds every field, None where the request left it out, so the default
\* is never used.
cfg_get(given, default) == given

\* The simulators the scenarios run on, one after the other, from the
\* instance `self` the method was called on.  SensorSimulator(...) goes
\* through __new__, which returns the one instance of the process, and
\* __init__ assigns the three parameters on it: `sim` is `self`.  The run
\* ends at the scenario whose first generate_frame raises.
RECURSIVE scenario_simulators(_, _)
scenario_simulators(self, configs) ==
    IF configs = <<>> THEN <<>>
    ELSE LET cfg == Head(configs)
             sim == SensorSimulator(cfg_get(cfg.flow_rate, self.avg_flow_rate),
                                    cfg_get(cfg.temp_setpoint, self.temp_setpoint),
                                    cfg_get(cfg.heater_regime, self.heater_regime))
         IN  IF sim.avg_flow_rate = None THEN <<sim>>
             ELSE <<sim>> \o scenario_simulators(sim, Tail(configs))

\* POST /simulate/simulate_scenarios: the rows are the configurations, the
\* detail the parameters every scenario ran with; an exception becomes the
\* status 500.
simulate_scenarios(configs, duration_hours) ==
    LET sims == scenario_simulators(simulator, configs)
        last == sims[Len(sims)]
    IN  /\ simulator' = last
        /\ result' = [Outcome("simulate_scenarios") EXCEPT
                         !.rows = configs, !.detail = sims, !.hours = duration_hours,
                         !.status = IF last.avg_flow_rate = None THEN "500" ELSE "ok"]
        /\ UNCHANGED <<store, config, scans>>

\* --- The simulate router. ---
\* A scenario that gives every parameter, one that gives the flow rate
\* only, and one that gives none.
ScenarioConfig ==
    {[users |-> 1, flow_rate |-> 500, temp_setpoint |-> 65, heater_regime |-> 15],
     [users |-> 1, flow_rate |-> 500, temp_setpoint |-> None, heater_regime |-> None],
     [users |-> 1, flow_rate |-> None, temp_setpoint |-> None, heater_regime |-> None]}

ScenarioLists == UNION {[1..n -> ScenarioConfig] : n \in 1..MaxScenarios}

SimulateScenarios == \E configs \in ScenarioLists : simulate_scenarios(configs, 1)

SimulateUsage ==
    \E hours \in 1..MaxHours, users \in {1, 10},
       sensor \in {NoSensor, "flow", "humidity"}, value \in {None, 7},
       timestamp \in {None, 30}, draw \in FrameDraws :
        simulate_usage(hours, users, sensor, value, timestamp, draw)

NextSimulate == SimulateScenarios \/ SimulateUsage \/ clear_all

SpecSimulate == Init /\ [][NextSimulate]_vars

(***************************************************************************)
(* Helpers of the properties.                                              *)
(***************************************************************************)
IsStaticScan == result.op \in {"get_anomalies", "detect_anomalies"}

SetpointOf(op) == IF op = "get_anomalies" THEN SETPOINT_TEMP_DEFAULT ELSE temperature_setpoint

\* C1: in a static scan a flow reading yields an Inactivity event exactly
\* when it and the FLOW_INACTIVITY_MINUTES - 1 flow readings scanned just
\* before it are all at or below FLOW_INACTIVITY_THRESHOLD: the first N-1
\* readings of a low run yield nothing, the N-th and every later one yield
\* an event, and a flow reading above the threshold starts the count again.
C1_InactivityIffRun ==
    IsStaticScan =>
        LET flow  == OfSensor(result.readings, "flow")
            N     == FLOW_INACTIVITY_MINUTES
            fires == {i \in DOMAIN flow :
                        /\ i >= N
                        /\ \A j \in (i - N + 1)..i : flow[j].value <= FLOW_INACTIVITY_THRESHOLD}
        IN  OfType(result.events, "Inactivity") =
                [i \in DOMAIN Select(flow, fires) |->
                    StaticEvent(Select(flow, fires)[i], "Inactivity")]

\* A scan that fired on the N-th and a later reading of a run, saw the run
\* broken, and then scanned N-1 further low readings without an event.
C1_Witness ==
    /\ IsStaticScan
    /\ Len(result.readings) = MaxFlowReadings
    /\ \A i \in 1..11 : result.readings[i].value = (IF i = 7 THEN 2 ELSE 1)
    /\ Len(result.events) = 2

\* C2: the static detector emits an Overtemperature event for a temperature
\* reading exactly when |value - setpoint| > TMP_TOLERANCE, the setpoint
\* being the one of the detector that ran; a reading exactly at the
\* tolerance emits nothing.
C2_OvertemperatureIffOutside ==
    IsStaticScan =>
        LET temp    == OfSensor(result.readings, "temperature")
            outside == {i \in DOMAIN temp :
                          \/ temp[i].value - SetpointOf(result.op) > TMP_TOLERANCE
                          \/ SetpointOf(result.op) - temp[i].value > TMP_TOLERANCE}
        IN  OfType(result.events, "Overtemperature") =
                [i \in DOMAIN Select(temp, outside) |->
                    StaticEvent(Select(temp, outside)[i], "Overtemperature")]

\* A scan of the endpoint detector over a reading at the upper tolerance
\* (62), one at the lower tolerance (58) and one outside (63): one event.
C2_Witness ==
    /\ result.op = "get_anomalies"
    /\ {62, 58, 63} \subseteq
          {result.readings[i].value : i \in {j \in DOMAIN result.readings :
                                               result.readings[j].sensor = "temperature"}}
    /\ Len(OfType(result.events, "Overtemperature")) = 1

TimesOf(s) == Sorted([i \in DOMAIN s |-> s[i].timestamp])

\* C9: the failure timestamps over which get_mtbf averages are, as a
\* multiset, the timestamps of the events the static detector emits for the
\* same snapshot inside the same window; in particular a flow reading is a
\* failure only where the Inactivity rule fires.
C9_MtbfFailuresAreStaticEvents ==
    result.op = "get_mtbf" =>
        LET static == StaticScan(result.readings, 1, 0, SETPOINT_TEMP_DEFAULT)
            inside == Select(static, {i \in DOMAIN static :
                                        in_range(static[i].timestamp, result.start, result.end)})
        IN  TimesOf(result.events) = TimesOf(inside)

\* The exact mean gap in hours of the failures of the last get_mtbf call,
\* as the pair <<seconds from first to last failure, 3600 * (k - 1)>>.
MtbfSpan == Max({result.events[i].timestamp : i \in DOMAIN result.events})
                - Min({result.events[i].timestamp : i \in DOMAIN result.events})

MtbfDen == 3600 * (Len(result.events) - 1)

\* C10 as stated: with k >= 2 failures get_mtbf returns exactly
\* (tk - t1) / (k - 1) hours, and with fewer than 2 failures it returns 0
\* with samples = k.
C10_MtbfIsExactMeanGap ==
    result.op = "get_mtbf" =>
        /\ result.samples = Len(result.events)
        /\ IF Len(result.events) >= 2
           THEN result.value * MtbfDen = 100 * MtbfSpan
           ELSE result.value = 0

\* C10 amended: with k >= 2 failures get_mtbf returns (tk - t1) / (k - 1)
\* hours rounded to two decimals, so within 0.005 of it; with fewer than 2
\* failures it returns 0; samples is k in both cases.
C10_MtbfIsRoundedMeanGap ==
    result.op = "get_mtbf" =>
        /\ result.samples = Len(result.events)
        /\ IF Len(result.events) >= 2
           THEN 2 * Abs(result.value * MtbfDen - 100 * MtbfSpan) <= MtbfDen
           ELSE result.value = 0

\* Scenario 4: two failures 2 h 30 min apart give 2.5 hours.
C10_Witness ==
    /\ result.op = "get_mtbf"
    /\ Len(result.events) = 2
    /\ MtbfSpan = 9000
    /\ result.value = 250

IsAdaptive == result.op = "adaptive_anomalies"

\* C3: at every row for which the adaptive detector has a rolling mean, the
\* standard deviation it divides by is not zero.
C3_DenominatorNeverZero ==
    (IsAdaptive /\ result.status = "ok") =>
        \A i \in DOMAIN result.rows :
            result.rows[i].mean # NaN => result.rows[i].std.sign # 0

\* The lists of events of sensor s that a detector call with filter f and
\* window w can return on the table rows.
EventsFor(rows, f, w, s) == {OfSensor(o.events, s) : o \in adaptive_outcomes(rows, f, w)}

\* C4: for every sensor s of the snapshot, the events of s (with mean, std
\* and z) that the detector can report on the interleaved snapshot, without
\* a filter or with the filter s, are those it can report on the readings
\* of s alone, and the events just reported are among them.
C4_NoCrossSensorContamination ==
    (IsAdaptive /\ result.status = "ok") =>
        \A s \in SensorsIn(store) :
            LET alone == EventsFor(OfSensor(store, s), NoSensor, result.window, s)
            IN  /\ EventsFor(store, NoSensor, result.window, s) = alone
                /\ EventsFor(store, s, result.window, s) = alone
                /\ result.sensor \in {NoSensor, s} => OfSensor(result.events, s) \in alone

\* An unfiltered call that reported events of two sensors whose readings
\* alternate in time.
C4_Witness ==
    /\ IsAdaptive
    /\ result.sensor = NoSensor
    /\ OfSensor(result.events, "flow") # <<>>
    /\ OfSensor(result.events, "temperature") # <<>>
    /\ \E i, j, k \in DOMAIN store :
          /\ store[i].sensor = "flow" /\ store[j].sensor = "temperature"
          /\ store[k].sensor = "flow"
          /\ store[i].timestamp < store[j].timestamp
          /\ store[j].timestamp < store[k].timestamp

\* The snapshot of the last call, oldest first, when it holds one sensor
\* at strictly ascending timestamps; <<>> otherwise.
Reverse(s) == [i \in DOMAIN s |-> s[Len(s) + 1 - i]]

AscendingSeries ==
    LET asc == Reverse(result.readings)
    IN  IF /\ \A i \in DOMAIN asc : asc[i].sensor = asc[1].sensor
           /\ \A i \in 1..(Len(asc) - 1) : asc[i].timestamp < asc[i + 1].timestamp
        THEN asc ELSE <<>>

\* The z-score test of row i of an ascending one-sensor series, from the
\* definition: mean and sample variance of the trailing window of at most
\* w rows, in integers.  n * x - S is n times the deviation of x.
TrailingFlags(series, i, w) ==
    LET lo   == IF i - w + 1 < 1 THEN 1 ELSE i - w + 1
        n    == i - lo + 1
        S    == Sum([j \in 1..n |-> series[lo + j - 1].value])
        devs == Sum([j \in 1..n |-> (n * series[lo + j - 1].value - S)
                                        * (n * series[lo + j - 1].value - S)])
        dev  == n * series[i].value - S
    IN  /\ n >= 2
        /\ devs > 0
        /\ 4 * (n - 1) * dev * dev > 9 * devs

TrailingMean(series, i, w) ==
    LET lo == IF i - w + 1 < 1 THEN 1 ELSE i - w + 1
        n  == i - lo + 1
    IN  Frac(Sum([j \in 1..n |-> series[lo + j - 1].value]), n)

C6_EmptyIsEmptyResult ==
    (IsAdaptive /\ result.readings = <<>>) =>
        /\ result.status = "ok"
        /\ result.events = <<>>
        /\ result.samples = 0

\* C6 amended: the adaptive detector raises (HTTP 404) exactly when the
\* snapshot is empty and then returns no events, so an empty list in
\* return means readings without anomalies, never an empty store.
C6_EmptyRaisesNotFound ==
    IsAdaptive =>
        /\ result.status = "error" <=> store = <<>>
        /\ result.status = "error" => result.events = <<>>
        /\ result.status \in {"ok", "error"}

\* The detector has been called on an empty store.
C6_Witness == IsAdaptive /\ store = <<>> /\ result.status = "error"

IsClassify == result.op \in {"classify_anomalies", "metrics.classify_anomalies"}

Unlabelled(e) ==
    [sensor |-> e.sensor, timestamp |-> e.timestamp, value |-> e.value,
     mean |-> e.mean, std |-> e.std, z |-> e.z]

\* C7: the classified list has one event per adaptive anomaly, in order,
\* and the label of each is determined by that event: leakage iff flow
\* above its rolling mean, sensor_error iff temperature more than 5 from
\* its rolling mean, overuse iff power above its rolling mean, other in
\* every remaining case.
C7_LabelIsFunctionOfEvent ==
    (IsClassify /\ result.status = "ok") =>
        /\ [i \in DOMAIN result.events |-> Unlabelled(result.events[i])]
              = anomalies_list(result.rows)
        /\ \A i \in DOMAIN result.events :
              LET e     == result.events[i]
                  above == e.value * e.mean[2] > e.mean[1]
                  far   == \/ e.value * e.mean[2] - e.mean[1] > 5 * e.mean[2]
                           \/ e.mean[1] - e.value * e.mean[2] > 5 * e.mean[2]
              IN  /\ e.type \in {"leakage", "sensor_error", "overuse", "other"}
                  /\ e.type = "leakage" <=> (e.sensor = "flow" /\ above)
                  /\ e.type = "sensor_error" <=> (e.sensor = "temperature" /\ far)
                  /\ e.type = "overuse" <=> (e.sensor = "power" /\ above)
        /\ \A i, j \in DOMAIN result.events :
              Unlabelled(result.events[i]) = Unlabelled(result.events[j])
                 => result.events[i].type = result.events[j].type

\* A classified list with a flow leakage and a temperature anomaly that is
\* above its mean but within 5 of it, hence "other".
C7_Witness ==
    /\ IsClassify
    /\ \E i, j \in DOMAIN result.events :
          /\ result.events[i].sensor = "flow" /\ result.events[i].type = "leakage"
          /\ result.events[j].sensor = "temperature" /\ result.events[j].type = "other"
          /\ result.events[j].value * result.events[j].mean[2] > result.events[j].mean[1]

\* The distinct timestamps of the anomalies behind the last MTBA.
MtbaTimes == {result.events[i].timestamp : i \in DOMAIN result.events}

MtbaDen == 60 * (Cardinality(MtbaTimes) - 1)

\* C8 as stated: MTBA is exactly (latest - earliest distinct anomaly
\* timestamp) / (k - 1) minutes for k >= 2 distinct timestamps, and 0 for
\* fewer; anomalies sharing a timestamp count once.
C8_MtbaIsExactMeanGap ==
    result.op = "get_mtba" =>
        IF Cardinality(MtbaTimes) >= 2
        THEN result.value * MtbaDen = 100 * (Max(MtbaTimes) - Min(MtbaTimes))
        ELSE result.value = 0

\* C8 amended: MTBA is (latest - earliest distinct anomaly timestamp) /
\* (k - 1) minutes rounded to two decimals, so within 0.005 of it, for
\* k >= 2 distinct timestamps, and 0 for fewer; anomalies sharing a
\* timestamp count once.
C8_MtbaIsRoundedMeanGap ==
    result.op = "get_mtba" =>
        IF Cardinality(MtbaTimes) >= 2
        THEN 2 * Abs(result.value * MtbaDen - 100 * (Max(MtbaTimes) - Min(MtbaTimes)))
                <= MtbaDen
        ELSE result.value = 0

\* Two sensors anomalous at one second, one of them again a second later:
\* three anomalies, two distinct timestamps, MTBA 1 s = 0.02 min.
C8_Witness ==
    /\ result.op = "get_mtba"
    /\ Len(result.events) = 3
    /\ Cardinality(MtbaTimes) = 2
    /\ \E i, j \in DOMAIN result.events :
          /\ result.events[i].sensor # result.events[j].sensor
          /\ result.events[i].timestamp = result.events[j].timestamp
    /\ result.value = 2

IsResponse == result.op = "get_response_index"

\* What a recovery predicate can tell readings apart by: the sensor, the
\* value and whether the detector flagged the reading.
RecoveryClass(row) == <<row.sensor, row.value, row.anomaly>>

\* The seconds from the anomaly a to the earliest later reading of a's
\* sensor that satisfies the recovery predicate P; None when there is none.
RecoveryTime(a, P) ==
    LET later == {result.rows[i].timestamp : i \in
                     {j \in DOMAIN result.rows :
                         /\ result.rows[j].sensor = a.sensor
                         /\ result.rows[j].timestamp > a.timestamp
                         /\ RecoveryClass(result.rows[j]) \in P}}
    IN  IF later = {} THEN None ELSE Min(later) - a.timestamp

Recovered(P) == Select(result.events, {i \in DOMAIN result.events :
                                          RecoveryTime(result.events[i], P) # None})

\* C11: there is a recovery predicate on readings for which the Response
\* Index is the mean, in minutes, over the classified anomalies of the time
\* from the anomaly to the next (earliest later) reading of the same sensor
\* that satisfies it, and 0 when no anomaly has such a reading.
C11_ResponseIsTimeToNextRecovery ==
    (IsResponse /\ result.status = "ok") =>
        \E P \in SUBSET {RecoveryClass(result.rows[i]) : i \in DOMAIN result.rows} :
            IF Recovered(P) = <<>> THEN result.value = 0
            ELSE result.value \in
                    Round2(Sum([i \in DOMAIN Recovered(P) |->
                                   RecoveryTime(Recovered(P)[i], P)]),
                           60 * Len(Recovered(P)))

\* C13: get_mtba and get_response_index never raise, and return value 0
\* with a sample count when the snapshot is empty, when there is no
\* adaptive anomaly and when no later reading of an anomaly's sensor exists.
C13_AnomalyMetricsNeverFail ==
    result.op \in {"get_mtba", "get_response_index"} =>
        /\ result.status = "ok"
        /\ (\/ store = <<>>
            \/ result.events = <<>>
            \/ (IsResponse /\ \A i \in DOMAIN result.events :
                                 first_later(result.readings, result.events[i]) = 0))
              => (result.value = 0 /\ result.samples # None /\ result.samples >= 0)

EmptyStoreMetrics ==
    {"get_availability", "get_performance", "get_quality", "get_energy_efficiency",
     "get_thermal_variation", "get_peak_flow_ratio"}

\* C12: on an empty store each of the six metrics returns, without
\* raising, a record with value 0.0, samples 0 and its title and unit;
\* get_performance also reports users 1, hours 1 and expected_value 0.48.
C12_EmptyStoreGivesZero ==
    (result.op \in EmptyStoreMetrics /\ store = <<>>) =>
        /\ result.status = "ok"
        /\ result.value = 0
        /\ result.samples = 0
        /\ <<result.op, result.title, result.unit>> \in
              {<<"get_availability", "Availability", "%">>,
               <<"get_performance", "Performance", "ratio">>,
               <<"get_quality", "Quality", "%">>,
               <<"get_energy_efficiency", "Energy Efficiency", "kWh/L">>,
               <<"get_thermal_variation", "Thermal Variation", "degC">>,
               <<"get_peak_flow_ratio", "Peak Flow Ratio", "">>}
        /\ result.op = "get_performance" =>
              (result.users = 1 /\ result.hours = 1 /\ result.expected_value = 48)

BoundedMetrics ==
    {"get_availability", "get_quality", "get_energy_efficiency", "get_thermal_variation",
     "get_usage_rate", "get_mtbf"}

\* C14: a call of a metric that takes start and end with start later than
\* end is rejected with an error: it never returns a record.
C14_StartAfterEndRejected ==
    (/\ result.op \in BoundedMetrics
     /\ result.start # None /\ result.end # None
     /\ result.start > result.end) => result.status # "ok"

WellFormed(rs) == Select(rs, {i \in DOMAIN rs : rs[i].timestamp # Malformed})

\* The flow readings of rs with a well-formed timestamp within the bounds.
ValidFlowIn(rs, start, end) ==
    LET flows == WellFormed(OfSensor(rs, "flow"))
    IN  Select(flows, {i \in DOMAIN flows :
                          /\ (start = None \/ flows[i].timestamp >= start)
                          /\ (end = None \/ flows[i].timestamp <= end)})

\* C15: a reading with a malformed timestamp is skipped, not fatal: the
\* availability computed on a snapshot holding such a reading raises no
\* error and is the availability of the snapshot without it.
C15_MalformedTimestampSkipped ==
    (result.op = "get_availability" /\ fromisoformat_fails(result.readings)) =>
        LET kept == ValidFlowIn(result.readings, result.start, result.end)
            positive == Cardinality({i \in DOMAIN kept : kept[i].value > 0})
        IN  /\ result.status = "ok"
            /\ result.samples = Len(kept)
            /\ IF kept = <<>> THEN result.value = 0
               ELSE result.value \in Round2(100 * positive, Len(kept))

IsAvailability == result.op = "get_availability" /\ result.status = "ok"

\* The flow readings of the snapshot within the inclusive bounds asked.
FlowInBounds ==
    LET flows == OfSensor(result.readings, "flow")
    IN  {i \in DOMAIN flows :
            /\ (result.start = None \/ flows[i].timestamp >= result.start)
            /\ (result.end = None \/ flows[i].timestamp <= result.end)}

PositiveFlowInBounds ==
    LET flows == OfSensor(result.readings, "flow")
    IN  {i \in FlowInBounds : flows[i].value > 0}

\* C16 as stated: availability is exactly 100 x positive / total.
C16_AvailabilityExact ==
    (IsAvailability /\ FlowInBounds # {}) =>
        result.value * Cardinality(FlowInBounds) = 10000 * Cardinality(PositiveFlowInBounds)

\* C16: availability is 100 x (flow readings in the window with value > 0)
\* / (flow readings in the window) rounded to two decimals, and 0.0 when
\* the window holds no flow reading; it is within [0, 100]; samples is the
\* number of flow readings in the window; the bounds are inclusive and an
\* absent bound does not restrict.
C16_AvailabilityRounded ==
    IsAvailability =>
        /\ result.samples = Cardinality(FlowInBounds)
        /\ result.value >= 0 /\ result.value <= 10000
        /\ IF FlowInBounds = {} THEN result.value = 0
           ELSE result.value \in
                  Round2(100 * Cardinality(PositiveFlowInBounds), Cardinality(FlowInBounds))

\* Readings stamped exactly at start and exactly at end are counted, and
\* the quotient is not a whole number of hundredths.
C16_Witness ==
    /\ IsAvailability
    /\ result.start = 0 /\ result.end = 60
    /\ LET flows == OfSensor(result.readings, "flow")
       IN  /\ Len(flows) = 3
           /\ \E i \in DOMAIN flows : flows[i].timestamp = 0
           /\ \E i \in DOMAIN flows : flows[i].timestamp = 60
    /\ result.samples = 3
    /\ result.value = 3333

IsUsageRate == result.op = "get_usage_rate" /\ result.status = "ok"

\* The times of the flow readings of the snapshot with a positive value
\* within the bounds asked, and how many such readings there are.
ServiceTimes ==
    {result.readings[i].timestamp : i \in
        {j \in DOMAIN result.readings :
            /\ result.readings[j].sensor = "flow" /\ result.readings[j].value > 0
            /\ (result.start = None \/ result.readings[j].timestamp >= result.start)
            /\ (result.end = None \/ result.readings[j].timestamp <= result.end)}}

ServiceCount ==
    Cardinality({j \in DOMAIN result.readings :
            /\ result.readings[j].sensor = "flow" /\ result.readings[j].value > 0
            /\ (result.start = None \/ result.readings[j].timestamp >= result.start)
            /\ (result.end = None \/ result.readings[j].timestamp <= result.end)})

ServiceSpan == Max(ServiceTimes) - Min(ServiceTimes)

IsEnergyEfficiency == result.op = "get_energy_efficiency" /\ result.status = "ok"

\* The sum of the values of the readings of a sensor of the snapshot that
\* are within the bounds asked.
RECURSIVE SumInBounds(_, _)
SumInBounds(name, n) ==
    IF n = 0 THEN 0
    ELSE LET r == result.readings[n]
             counted == /\ r.sensor = name
                        /\ (result.start = None \/ r.timestamp >= result.start)
                        /\ (result.end = None \/ r.timestamp <= result.end)
         IN  SumInBounds(name, n - 1) + (IF counted THEN r.value ELSE 0)

PowerSum == SumInBounds("power", Len(result.readings))

FlowSum == SumInBounds("flow", Len(result.readings))

IsFailuresCount == result.op = "get_failures_count" /\ result.status = "ok"

\* The static failure rule of the sensor kind of a reading.
FailsRule(r) ==
    \/ r.sensor = "temperature" /\ (r.value > 62 \/ r.value < 58)
    \/ r.sensor = "flow" /\ r.value <= 1
    \/ r.sensor = "level" /\ r.value < 2
    \/ r.sensor = "power" /\ r.value > 4

\* The readings of the snapshot of the last call stamped at or after
\* now - weeks * 7 days that fail the rule, of one sensor or of any.
FailuresSince(weeks, sensors) ==
    {i \in DOMAIN result.readings :
        /\ result.readings[i].timestamp >= result.end - weeks * 7 * 24 * 3600
        /\ result.readings[i].sensor \in sensors
        /\ FailsRule(result.readings[i])}

AllSensors == {"temperature", "flow", "level", "power"}

C19_CountsFailuresSince ==
    IsFailuresCount =>
        /\ result.value = Cardinality(FailuresSince(result.window, AllSensors))
        /\ result.detail = <<Cardinality(FailuresSince(result.window, {"temperature"})),
                             Cardinality(FailuresSince(result.window, {"flow"})),
                             Cardinality(FailuresSince(result.window, {"level"})),
                             Cardinality(FailuresSince(result.window, {"power"}))>>
        /\ result.value = result.detail[1] + result.detail[2] + result.detail[3]
                             + result.detail[4]

\* Two calls in a row on one store at one time of the clock, the second for
\* at least as many weeks as the first.
C19_MoreWeeksNotFewer ==
    (/\ IsFailuresCount /\ IsFailuresCount'
     /\ store' = store
     /\ result'.end = result.end
     /\ result'.window >= result.window) => result'.value >= result.value

\* C19: the failures count for N weeks is the number of readings stamped
\* at or after now - N * 7 days that satisfy the static failure rule of
\* their sensor kind, each counted once; the total is the sum of the four
\* per-sensor counts; for a fixed store and a fixed now the count does not
\* decrease when N grows.
C19_FailuresCount == []C19_CountsFailuresSince /\ [][C19_MoreWeeksNotFewer]_vars

\* A call for two weeks on two stored failures, one of temperature and one
\* of flow, one of them stamped exactly at the cutoff: both are counted.
C19_Witness ==
    /\ IsFailuresCount
    /\ result.window = 2
    /\ result.value = 2
    /\ Len(result.readings) = 2
    /\ \E i \in DOMAIN result.readings :
          result.readings[i].timestamp = result.end - 2 * Week
    /\ result.detail[1] = 1 /\ result.detail[2] = 1

QueryOps ==
    {"get_anomalies", "detect_anomalies", "adaptive_anomalies", "classify_anomalies",
     "metrics.classify_anomalies", "get_mtbf", "get_mtba", "get_response_index",
     "get_failures_count", "get_availability", "get_quality", "get_energy_efficiency",
     "get_thermal_variation", "get_usage_rate", "get_performance", "get_peak_flow_ratio"}

SeenIn(a, rs) ==
    \E i \in DOMAIN rs :
        /\ rs[i].sensor = a.sensor
        /\ rs[i].timestamp = a.timestamp
        /\ rs[i].value = a.value

\* C21: a get_response_index call that scans for recoveries scans the
\* snapshot its anomalies were computed from, whatever is written or
\* deleted during the call: every anomaly it holds is a reading of the
\* snapshot scanned.
C21_OneSnapshotPerCall ==
    (result.op = "get_response_index" /\ result.status = "ok" /\ result.events # <<>>) =>
        /\ result.all_readings = result.readings
        /\ \A i \in DOMAIN result.events : SeenIn(result.events[i], result.all_readings)

\* C22: every static scan starts its counter at 0: a finished call has
\* the events of a scan of its snapshot from a counter of 0, whatever
\* calls ran before it or alternated with it, so two calls over the same
\* snapshot return the same events.
C22_CounterScopedToOneScan ==
    /\ \A c \in Calls :
          scans[c].pc = "done" =>
              scans[c].anomalies = StaticScan(scans[c].readings, 1, 0, SETPOINT_TEMP_DEFAULT)
    /\ \A c \in Calls, d \in Calls :
          (/\ scans[c].pc = "done" /\ scans[d].pc = "done"
           /\ scans[c].readings = scans[d].readings) =>
              scans[c].anomalies = scans[d].anomalies

\* One call has returned an Inactivity event and left its counter in a
\* low-flow run; the other, over the same snapshot, is in the middle of
\* the run with a counter of its own.
C22_Witness ==
    /\ scans[1].pc = "done"
    /\ scans[1].anomalies # <<>>
    /\ scans[1].flow_zero_count >= FLOW_INACTIVITY_MINUTES
    /\ scans[2].pc = "loop"
    /\ scans[2].readings = scans[1].readings
    /\ scans[2].flow_zero_count \in 1..(FLOW_INACTIVITY_MINUTES - 1)

\* C23: the static detector emits a LowLevel event for a level reading
\* exactly when value < LEVEL_LOW_THRESHOLD and a HighPower event for a
\* power reading exactly when value > POWER_HIGH_THRESHOLD; a reading at the
\* threshold emits nothing.
C23_LowLevelHighPowerStrict ==
    IsStaticScan =>
        LET level == OfSensor(result.readings, "level")
            power == OfSensor(result.readings, "power")
            low   == {i \in DOMAIN level : level[i].value < LEVEL_LOW_THRESHOLD}
            high  == {i \in DOMAIN power : power[i].value > POWER_HIGH_THRESHOLD}
        IN  /\ OfType(result.events, "LowLevel") =
                  [i \in DOMAIN Select(level, low) |->
                      StaticEvent(Select(level, low)[i], "LowLevel")]
            /\ OfType(result.events, "HighPower") =
                  [i \in DOMAIN Select(power, high) |->
                      StaticEvent(Select(power, high)[i], "HighPower")]

\* A scan over a level reading at the threshold and one below it, and a
\* power reading at the threshold and one above it: one event of each type.
C23_Witness ==
    /\ IsStaticScan
    /\ {<<"level", LEVEL_LOW_THRESHOLD>>, <<"level", LEVEL_LOW_THRESHOLD - 1>>,
        <<"power", POWER_HIGH_THRESHOLD>>, <<"power", POWER_HIGH_THRESHOLD + 1>>}
          \subseteq {<<result.readings[i].sensor, result.readings[i].value>> :
                        i \in DOMAIN result.readings}
    /\ Len(OfType(result.events, "LowLevel")) = 1
    /\ Len(OfType(result.events, "HighPower")) = 1

KnownSensors == {"temperature", "flow", "level", "power"}

Known(rs) == Select(rs, {i \in DOMAIN rs : rs[i].sensor \in KnownSensors})

\* C24: a reading whose sensor is none of temperature, flow, level, power
\* yields no event and does not make the static scan fail: the events are
\* those of the scan of the same readings without it.
C24_UnknownSensorsIgnored ==
    IsStaticScan =>
        /\ result.status = "ok"
        /\ \A i \in DOMAIN result.events : result.events[i].sensor \in KnownSensors
        /\ result.events = StaticScan(Known(result.readings), 1, 0, SetpointOf(result.op))

\* A scan that found an inactivity in a run of low flow readings with a
\* reading of an unknown sensor inside the run.
C24_Witness ==
    /\ IsStaticScan
    /\ Len(OfType(result.events, "Inactivity")) >= 1
    /\ \E i \in 2..(Len(result.readings) - 1) :
          /\ result.readings[i].sensor = "humidity"
          /\ result.readings[i - 1].sensor = "flow" /\ result.readings[i - 1].value = 1
          /\ result.readings[i + 1].sensor = "flow" /\ result.readings[i + 1].value = 1

\* C27: readings of temperature, level or power between flow readings
\* neither increment nor reset the inactivity counter: the Inactivity events
\* of a scan are those of the scan of its flow readings alone.
C27_OtherSensorsLeaveCounter ==
    IsStaticScan =>
        OfType(result.events, "Inactivity") =
            OfType(StaticScan(OfSensor(result.readings, "flow"), 1, 0,
                              SetpointOf(result.op)), "Inactivity")

\* A scan that found an inactivity in a run of five low flow readings with
\* a reading of another sensor inside the run.
C27_Witness ==
    /\ IsStaticScan
    /\ Len(OfType(result.events, "Inactivity")) = 1
    /\ Len(OfSensor(result.readings, "flow")) = FLOW_INACTIVITY_MINUTES
    /\ \E i \in 2..(Len(result.readings) - 1) :
          /\ result.readings[i].sensor \in {"temperature", "level", "power"}
          /\ result.readings[i - 1].sensor = "flow"
          /\ result.readings[i + 1].sensor = "flow"

\* The configuration get_config returns holds the five values of the call
\* recorded in r.
ReturnsValuesOf(rows, r) ==
    /\ rows # <<>>
    /\ LET cfg == get_config(rows)
       IN  /\ DOMAIN cfg = {"user_quantity", "hours", "avg_flow_rate", "temp_setpoint",
                            "heater_regime"}
           /\ cfg.user_quantity = r.users /\ cfg.hours = r.hours
           /\ <<cfg.avg_flow_rate, cfg.temp_setpoint, cfg.heater_regime>> = r.detail

C25_AtMostOneConfig == Len(config) <= 1

C25_SaveThenGet ==
    (result'.op = "save_config" /\ result'.detail # <<>>) =>
        (result'.status = "ok" /\ ReturnsValuesOf(config', result'))

C25_ClearThenNone == result'.op \in {"clear_config", "clear_all"} => config' = <<>>

\* C25: the store holds at most one configuration; after a save_config
\* with user_quantity, hours, avg_flow_rate, temp_setpoint and heater_regime
\* get_config returns those five values, also from a new LocalStorage on
\* the same database, and after a clear it returns None.
C25_ConfigIsLastSaved ==
    /\ []C25_AtMostOneConfig
    /\ [][C25_SaveThenGet]_vars
    /\ [][C25_ClearThenNone]_vars

\* The flow readings of the snapshot in time order (the timestamps of one
\* sensor are distinct in the stores of SpecRun).
InTimeOrder(readings) ==
    LET flow == OfSensor(readings, "flow")
        at(t) == CHOOSE i \in DOMAIN flow : flow[i].timestamp = t
        times == TimesOf(flow)
    IN  [i \in DOMAIN flow |-> flow[at(times[i])]]

\* C26: over flow readings stored with ascending timestamps the endpoint
\* detector reports Inactivity at a reading exactly when it is at least the
\* N-th of a low-flow run in time order; for [0,0,0,0,0,1] the only event
\* is at the fifth reading (t4), and the chronologically first N-1 readings
\* of a run are never reported.
C26_InactivityInTimeOrder ==
    result.op = "get_anomalies" =>
        LET chron == InTimeOrder(result.readings)
            N     == FLOW_INACTIVITY_MINUTES
            fires == {i \in DOMAIN chron :
                        /\ i >= N
                        /\ \A j \in (i - N + 1)..i :
                              chron[j].value <= FLOW_INACTIVITY_THRESHOLD}
            inactivity == OfType(result.events, "Inactivity")
        IN  {inactivity[i].timestamp : i \in DOMAIN inactivity} =
                {chron[i].timestamp : i \in fires}

CallsAdaptive == result.op \in {"classify_anomalies", "get_mtba", "get_response_index"}

\* How many rows of its sensor a row has up to and including itself: the
\* number of samples of its trailing window when that is below the window.
SamplesAt(rows, i) == Cardinality({j \in 1..i : rows[j].sensor = rows[i].sensor})

FewSamplesNeverFlagged ==
    \A i \in DOMAIN result.rows :
        SamplesAt(result.rows, i) < result.window \div 2 => ~result.rows[i].anomaly

\* The original statement of C28: under a window of 1 to 4 the adaptive
\* detector emits no anomaly for any input series, and a reading with fewer
\* than W // 2 samples is never flagged.
C28_SmallWindowsNeverFlag ==
    CallsAdaptive =>
        /\ result.window \in 1..4 => result.events = <<>>
        /\ FewSamplesNeverFlagged

\* C28: under a window of 1 to 3 the adaptive detector emits no anomaly for
\* any input series; under a window of 4 it flags only a reading whose |z|
\* is the threshold itself before rounding, which is a full window of three
\* equal readings and the reading scored; a reading with fewer than W // 2
\* samples is never flagged.
C28_SmallWindowsFlagOnlyAtThreshold ==
    CallsAdaptive =>
        /\ result.window \in 1..3 => result.events = <<>>
        /\ result.window = 4 =>
              \A i \in DOMAIN result.rows :
                  result.rows[i].anomaly =>
                      /\ at_threshold(result.rows[i].z)
                      /\ SamplesAt(result.rows, i) >= 4
                      /\ LET before == {result.rows[j].value : j \in
                                           {k \in 1..(i - 1) :
                                              /\ result.rows[k].sensor = result.rows[i].sensor
                                              /\ SamplesAt(result.rows, k)
                                                    > SamplesAt(result.rows, i) - 4}}
                         IN  /\ Cardinality(before) = 1
                             /\ result.rows[i].value \notin before
        /\ FewSamplesNeverFlagged

\* A call under window 4 that flagged the last of the readings 0, 0, 0, 3
\* of flow, and nothing else.
C28_Witness ==
    /\ result.op = "classify_anomalies"
    /\ result.window = 4
    /\ [i \in DOMAIN result.rows |-> result.rows[i].value] = <<0, 0, 0, 3>>
    /\ Len(result.events) = 1
    /\ result.events[1].value = 3

ScenarioParameters == {"flow_rate", "temp_setpoint", "heater_regime"}

ParameterOf(sim, p) ==
    IF p = "flow_rate" THEN sim.avg_flow_rate
    ELSE IF p = "temp_setpoint" THEN sim.temp_setpoint ELSE sim.heater_regime

\* C29: simulate_scenarios leaves avg_flow_rate, temp_setpoint and
\* heater_regime of the process-wide simulator as they were, and every
\* scenario runs with its own parameters where it gives them and with
\* those of the process-wide simulator where it does not, whatever the
\* scenarios before it gave.
C29_Isolated ==
    result'.op = "simulate_scenarios" =>
        /\ simulator' = simulator
        /\ Len(result'.detail) = Len(result'.rows)
        /\ \A k \in DOMAIN result'.detail, p \in ScenarioParameters :
              ParameterOf(result'.detail[k], p) =
                  IF result'.rows[k][p] # None THEN result'.rows[k][p]
                  ELSE ParameterOf(simulator, p)

C29_ScenariosAreIsolated == [][C29_Isolated]_vars

\* C30: after simulate_usage has returned the store holds exactly the
\* readings the call generated, the configuration is (users, hours), and
\* generated_records is the number of readings stored, with and without a
\* single-sensor override.
C30_GeneratedRecordsAreStored ==
    (result.op = "simulate_usage" /\ result.status = "ok") =>
        /\ store = result.readings
        /\ config = <<[user_quantity |-> result.users, hours |-> result.hours]>>
        /\ result.samples = Len(store)

====
